---- MODULE Spec2Model ----
(***************************************************************************)
(* A model of swuSearch: the scan orchestrator (ScanWorker.run and the     *)
(* thread pool it drives), the GUI handlers that receive its signals, and  *)
(* the JSON record store the handlers write to.                            *)
(***************************************************************************)
EXTENDS Integers, Sequences, FiniteSets, TLC

(* ------------------------------ bounds --------------------------------- *)

\* Longest list of PDF paths handed to one ScanWorker.
MaxPaths == 2

\* Cap on the number of (pdf_path, page_index) tasks of one scan.
MaxTasks == 3

\* Pages of the one PDF scanned under PoolSpec (more tasks than pool threads).
PoolTasks == 6

\* Last clock value at which StoreSpec still starts a save.
MaxClock == 3

\* Longest expression, in pieces, that QuerySpec enumerates.
MaxPieces == 4

\* Longest list of records that QuerySpec hands to filter_cards.
MaxRecords == 2

\* Most lines of a page text that ClassifySpec enumerates.
MaxLines == 2

(* --------------------------- program constants ------------------------- *)

\* ThreadPoolExecutor(max_workers=5)
max_workers == 5

\* SearchWindow.ALLOWED_FIELDS
ALLOWED_FIELDS ==
    {"file_path", "pdf_path", "page_index", "size_bytes", "modified_ts", "scanned_text"}

\* The folder the scan was started for (the batch key of _on_scan_finished).
folder_path == "folderA"

VARIABLES
    pdf_paths,      \* ScanWorker._pdf_paths: the input list
    stop_event,     \* ScanWorker._stop_event
    pc,             \* position of the thread executing ScanWorker.run
    probe_i,        \* index into pdf_paths of the page-count loop
    tasks,          \* run's local list of (pdf_path, page_index)
    total,          \* run's local total
    processed,      \* run's local processed
    cards,          \* run's local cards, in arrival order
    fstate,         \* per task: state of its future
    fresult,        \* per task: what pdf_page_to_card did ("unset" until finished)
    qhead,          \* next position of the executor's FIFO work queue
    yielded,        \* futures whose loop iteration (lines 55-63) has run
    cancel_i,       \* index of the "for fut in futures: fut.cancel()" loop
    progress,       \* emitted progress(processed, total) signals, in order
    errors,         \* sources of the emitted error(str) signals
    terminal,       \* emitted finished(list) / cancelled(list) signals, in order
    inflight_at_cancel, \* history: tasks RUNNING when request_cancel was first called
    gui,            \* which terminal signal the GUI thread has handled
    file,           \* content of appData.json
    now,            \* the clock read by datetime.now(timezone.utc)
    wr,             \* the write_text call in progress on appData.json, if any
    raised,         \* whether the last store call raised to its caller
    store_call,     \* the store writer most recently called, and whether it returned
    view,           \* what the most recent read of the store (_collect_cards) returned
    norm,           \* the most recent _normalize_card call and its result
    saver,          \* _on_scan_finished running on the scan thread: position, document
    clearer,        \* _on_clear_clicked running on the GUI thread: position
    query,          \* the most recent evaluate_expression call and its result
    filt,           \* the most recent filter_cards call and its result
    classified      \* the most recent classify_card call and its result

vars == <<pdf_paths, stop_event, pc, probe_i, tasks, total, processed, cards,
          fstate, fresult, qhead, yielded, cancel_i, progress, errors, terminal,
          inflight_at_cancel, gui, file, now, wr, raised,
          store_call, view, norm, saver, clearer, query, filt, classified>>

\* What the handlers running concurrently on two threads add to the state.
concVars == <<saver, clearer>>

\* Records of the most recent calls of the store's functions.
\* Records of the most recent calls of the pure functions.
pureVars == <<norm, query, filt, classified>>

callVars == <<store_call, view, pureVars>>

storeVars == <<file, now, wr, raised, callVars, concVars>>

scanVars == <<pdf_paths, stop_event, pc, probe_i, tasks, total, processed, cards,
              fstate, fresult, qhead, yielded, cancel_i, progress, errors, terminal,
              inflight_at_cancel>>

(* ------------------------------ helpers -------------------------------- *)

TaskIds == 1 .. Len(tasks)

\* Futures in a state as_completed treats as done.
Done(t) == fstate[t] \in {"FINISHED", "CANCELLED"}

Running == {t \in DOMAIN fstate : fstate[t] = "RUNNING"}

(* ----------------------- records and the store ------------------------- *)

\* A Python dict holding a card is modelled as [wrapper, fields]: wrapper = ""
\* is the flat dict `fields`; wrapper = w # "" is the legacy shape {w: fields}.
NoWrapper == ""

\* pdf_page_to_card(pdf_path, page_index) when it returns a dict.  The preview
\* path is "<stem>_p<page_index + 1>.png"; stat values are those of the PDF.
pdf_page_to_card(pdf_path, page_index) ==
    [wrapper |-> NoWrapper,
     fields  |-> [file_path    |-> <<pdf_path, page_index + 1>>,
                  pdf_path     |-> pdf_path,
                  page_index   |-> page_index,
                  size_bytes   |-> 100 + pdf_path,
                  modified_ts  |-> 1000 + pdf_path,
                  scanned_text |-> <<pdf_path, page_index>>]]

CardOfTask(t) == pdf_page_to_card(tasks[t][1], tasks[t][2])

\* A projection that drops nothing.
ProjectKeepAll(fields, allowed) == fields

\* {k: card[k] for k in allowed if k in card}
Project(fields, allowed) == [k \in (DOMAIN fields) \cap allowed |-> fields[k]]

\* _normalize_card that hands back the inner dict of a wrapper as it is.
_normalize_card_ReturnInner(card, allowed) ==
    IF card.wrapper # NoWrapper /\ card.wrapper \in allowed
    THEN card
    ELSE IF card.wrapper # NoWrapper
         THEN [wrapper |-> NoWrapper, fields |-> card.fields]
         ELSE [wrapper |-> NoWrapper, fields |-> Project(card.fields, allowed)]

\* _normalize_card(card, allowed)
_normalize_card(card, allowed) ==
    IF card.wrapper # NoWrapper /\ card.wrapper \in allowed
    THEN card   \* one allowed key: not unwrapped, and the projection keeps it
    ELSE [wrapper |-> NoWrapper, fields |-> Project(card.fields, allowed)]

NormalizeAll(cs, allowed) == [k \in 1 .. Len(cs) |-> _normalize_card(cs[k], allowed)]

\* appData.json: absent, a complete JSON document, or a partially written one.
AbsentFile == [kind |-> "absent", folders |-> <<>>]
PartialFile == [kind |-> "partial", folders |-> <<>>]
DocFile(folders) == [kind |-> "doc", folders |-> folders]

\* _load_cache(): the folders of the document, in stored order; a missing or
\* unparsable file gives {"folders": {}}.
_load_cache(f) == IF f.kind = "doc" THEN f.folders ELSE <<>>

\* folders.setdefault(folder_path, entry): an existing batch is kept.
SetFolderKeepExisting(folders, entry) ==
    IF \E k \in 1 .. Len(folders) : folders[k].folder_path = entry.folder_path
    THEN folders
    ELSE Append(folders, entry)

\* A store that is a list of batches: every save adds one.
SetFolderAppend(folders, entry) == Append(folders, entry)

\* folders[folder_path] = entry   (a dict assignment keeps the key's position)
SetFolder(folders, entry) ==
    IF \E k \in 1 .. Len(folders) : folders[k].folder_path = entry.folder_path
    THEN [k \in 1 .. Len(folders) |->
            IF folders[k].folder_path = entry.folder_path THEN entry ELSE folders[k]]
    ELSE Append(folders, entry)

\* The entry save_folder_cards builds.
FolderEntry(path, cs, ts) ==
    [folder_path |-> path, last_scanned |-> ts, card_count |-> Len(cs), cards |-> cs]

\* The document save_folder_cards hands to _save_cache.
save_folder_cards(f, path, cs, ts) == DocFile(SetFolder(_load_cache(f), FolderEntry(path, cs, ts)))

\* No write_text call is in progress.
NoWrite == [op |-> "idle", data |-> AbsentFile]

\* str(card.get("file_path", "")) when it is the empty string.
NoPath == <<>>

\* str(card.get("file_path", "")) of _collect_cards, line 616: the lookup is on
\* the dict as stored, so a legacy {kind: {...}} dict has no "file_path" unless
\* its one key is "file_path" (then the text of the inner dict, written <<-1>>).
TopLevelFilePath(card) ==
    IF card.wrapper = NoWrapper
    THEN IF "file_path" \in DOMAIN card.fields THEN card.fields.file_path ELSE NoPath
    ELSE IF card.wrapper = "file_path" THEN <<-1>> ELSE NoPath

\* preferred_path=None (an empty string is falsy as well).
NoPreferred == ""

\* list(folders.items()) alone: the preferred folder keeps its place.
ItemsStoredOrder(folders, preferred_path) == folders

\* Lines 600-604: list(folders.items()), with the preferred folder moved last.
Items(folders, preferred_path) ==
    IF /\ preferred_path # NoPreferred
       /\ \E k \in 1 .. Len(folders) : folders[k].folder_path = preferred_path
    THEN SelectSeq(folders, LAMBDA e : e.folder_path # preferred_path)
            \o SelectSeq(folders, LAMBDA e : e.folder_path = preferred_path)
    ELSE folders

\* The cards the two nested loops of lines 607-620 visit, in order.
RECURSIVE StoredCards(_)
StoredCards(items) ==
    IF items = <<>> THEN <<>> ELSE Head(items).cards \o StoredCards(Tail(items))

\* A list of (key, value) pairs instead of a dict.
DictSetAppend(by_file, key, value) == Append(by_file, [key |-> key, value |-> value])

\* by_file[file_path] = normalized: a Python dict keeps a key's first position.
DictSet(by_file, key, value) ==
    IF \E k \in 1 .. Len(by_file) : by_file[k].key = key
    THEN [k \in 1 .. Len(by_file) |->
            IF by_file[k].key = key THEN [key |-> key, value |-> value] ELSE by_file[k]]
    ELSE Append(by_file, [key |-> key, value |-> value])

\* Lines 613-620: the loop body, over the cards still to visit.
RECURSIVE ByFile(_, _, _)
ByFile(stored, allowed, by_file) ==
    IF stored = <<>>
    THEN by_file
    ELSE LET card == Head(stored)
             file_path == TopLevelFilePath(card)
             normalized == IF allowed # {} THEN _normalize_card(card, allowed) ELSE card
         IN  IF file_path = NoPath
             THEN ByFile(Tail(stored), allowed, by_file)
             ELSE ByFile(Tail(stored), allowed, DictSet(by_file, file_path, normalized))

\* _collect_cards(cache, preferred_path, allowed=allowed): list(by_file.values())
_collect_cards(folders, preferred_path, allowed) ==
    LET by_file == ByFile(StoredCards(Items(folders, preferred_path)), allowed, <<>>)
    IN  [k \in 1 .. Len(by_file) |-> by_file[k].value]

\* A migration that stops after the first folder.
MigratedFirstOnly(folders, allowed) ==
    [k \in 1 .. Len(folders) |->
        IF k = 1
        THEN [folders[k] EXCEPT !.cards = NormalizeAll(folders[k].cards, allowed)]
        ELSE folders[k]]

\* _load_cached_cards, lines 345-355: every folder's cards normalized in the
\* loaded cache.
Migrated(folders, allowed) ==
    [k \in 1 .. Len(folders) |->
        [folders[k] EXCEPT !.cards = NormalizeAll(folders[k].cards, allowed)]]

\* No store writer has been called, or the last one is forgotten.
NoCall == [op |-> "none", path |-> "", cs |-> <<>>, before |-> <<>>, returned |-> FALSE]

\* Nothing has been read from the store since the last writer started.
NoView == [read |-> "none", pref |-> NoPreferred, of |-> <<>>, cards |-> <<>>]

\* {}: what _normalize_card returns for a non-dict, and the empty record.
EmptyCard == [wrapper |-> NoWrapper, fields |-> <<>>]

\* _normalize_card has not been called.
NoNorm == [called |-> FALSE, card |-> EmptyCard, once |-> EmptyCard, twice |-> EmptyCard]

\* evaluate_expression has not been called.
NoQuery == [called |-> FALSE, expr |-> "", haystack |-> "", result |-> FALSE]

\* filter_cards has not been called.
NoFilter == [called |-> FALSE, cards |-> <<>>, include |-> "", exclude |-> "",
             filtered |-> <<>>]

\* classify_card has not been called.
NoClassified == [called |-> FALSE, text |-> "", type |-> "", key |-> "",
                 record |-> [type |-> ""]]

\* The scan thread is not inside _on_scan_finished.
IdleSaver == [pc |-> "idle", doc |-> AbsentFile, overlap |-> FALSE]

\* The GUI thread is not inside clear_cache; returned tells whether a
\* clear_cache call has returned before.
IdleClearer == [pc |-> "idle", overlap |-> FALSE, returned |-> FALSE]

(* ------------------------------- Init ---------------------------------- *)

\* A batch an earlier scan of another folder left in the store.
OldEntry == FolderEntry("folderB", <<pdf_page_to_card(1, 0)>>, 0)

Init ==
    /\ \E n \in 1 .. MaxPaths : pdf_paths = [k \in 1 .. n |-> k]
    /\ stop_event = FALSE
    /\ pc = "probe"
    /\ probe_i = 1
    /\ tasks = <<>>
    /\ total = 0
    /\ processed = 0
    /\ cards = <<>>
    /\ fstate = <<>>
    /\ fresult = <<>>
    /\ qhead = 1
    /\ yielded = {}
    /\ cancel_i = 1
    /\ progress = <<>>
    /\ errors = {}
    /\ terminal = <<>>
    /\ inflight_at_cancel = {}
    /\ gui = "scanning"
    /\ file = DocFile(<<OldEntry>>)
    /\ now = 1
    /\ wr = NoWrite
    /\ raised = FALSE
    /\ store_call = NoCall
    /\ view = NoView
    /\ norm = NoNorm
    /\ saver = IdleSaver
    /\ clearer = IdleClearer
    /\ query = NoQuery
    /\ filt = NoFilter
    /\ classified = NoClassified

(* ------------------- ScanWorker (scan_worker.py) ----------------------- *)

\* request_cancel(): the GUI calls it while the scan's worker is installed.
request_cancel ==
    /\ gui = "scanning"
    /\ stop_event' = TRUE
    /\ inflight_at_cancel' = IF stop_event THEN inflight_at_cancel ELSE Running
    /\ UNCHANGED <<pdf_paths, pc, probe_i, tasks, total, processed, cards, fstate,
                   fresult, qhead, yielded, cancel_i, progress, errors, terminal,
                   gui, storeVars>>

\* run, lines 30-37: get_pdf_page_count returns page_count.
ProbeOk(counts) ==
    /\ pc = "probe"
    /\ probe_i <= Len(pdf_paths)
    /\ \E page_count \in counts :
          tasks' = tasks \o [idx \in 1 .. page_count |-> <<pdf_paths[probe_i], idx - 1>>]
    /\ probe_i' = probe_i + 1
    /\ UNCHANGED <<pdf_paths, stop_event, pc, total, processed, cards, fstate,
                   fresult, qhead, yielded, cancel_i, progress, errors, terminal,
                   inflight_at_cancel, gui, storeVars>>

\* run, lines 33-35: get_pdf_page_count raises.
ProbeFail ==
    /\ pc = "probe"
    /\ probe_i <= Len(pdf_paths)
    /\ errors' = errors \cup {<<"probe", pdf_paths[probe_i]>>}
    /\ probe_i' = probe_i + 1
    /\ UNCHANGED <<pdf_paths, stop_event, pc, tasks, total, processed, cards, fstate,
                   fresult, qhead, yielded, cancel_i, progress, terminal,
                   inflight_at_cancel, gui, storeVars>>

\* run, lines 39-48: the first progress signal and the submission of every task.
Submit ==
    /\ pc = "probe"
    /\ probe_i > Len(pdf_paths)
    /\ total' = Len(tasks)
    /\ processed' = 0
    /\ cards' = <<>>
    /\ progress' = Append(progress, <<0, Len(tasks)>>)
    /\ fstate' = [t \in TaskIds |-> "PENDING"]
    /\ fresult' = [t \in TaskIds |-> "unset"]
    /\ pc' = "loop"
    /\ UNCHANGED <<pdf_paths, stop_event, probe_i, tasks, qhead, yielded, cancel_i,
                   errors, terminal, inflight_at_cancel, gui, storeVars>>

\* WorkerTake in a pool that starts a thread for every queued item.
WorkerTakeUnbounded ==
    /\ pc \in {"loop", "cancel", "shutdown"}
    /\ qhead <= Len(tasks)
    /\ fstate' = IF fstate[qhead] = "PENDING"
                 THEN [fstate EXCEPT ![qhead] = "RUNNING"]
                 ELSE fstate
    /\ qhead' = qhead + 1
    /\ UNCHANGED <<pdf_paths, stop_event, pc, probe_i, tasks, total, processed, cards,
                   fresult, yielded, cancel_i, progress, errors, terminal,
                   inflight_at_cancel, gui, storeVars>>

\* A pool thread takes the next work item; a cancelled one is dropped.
WorkerTake ==
    /\ pc \in {"loop", "cancel", "shutdown"}
    /\ qhead <= Len(tasks)
    /\ Cardinality(Running) < max_workers
    /\ fstate' = IF fstate[qhead] = "PENDING"
                 THEN [fstate EXCEPT ![qhead] = "RUNNING"]
                 ELSE fstate
    /\ qhead' = qhead + 1
    /\ UNCHANGED <<pdf_paths, stop_event, pc, probe_i, tasks, total, processed, cards,
                   fresult, yielded, cancel_i, progress, errors, terminal,
                   inflight_at_cancel, gui, storeVars>>

\* pdf_page_to_card ends in a pool thread: a dict, None, or an exception.
ExtractDone(results) ==
    /\ \E t \in Running, r \in results :
          /\ fstate' = [fstate EXCEPT ![t] = "FINISHED"]
          /\ fresult' = [fresult EXCEPT ![t] = r]
    /\ UNCHANGED <<pdf_paths, stop_event, pc, probe_i, tasks, total, processed, cards,
                   qhead, yielded, cancel_i, progress, errors, terminal,
                   inflight_at_cancel, gui, storeVars>>

\* LoopProcess without the try/except around future.result(): an extraction
\* that raised ends run with no signal.
LoopProcessAbortOnRaise ==
    /\ pc = "loop"
    /\ ~stop_event
    /\ \E t \in TaskIds \ yielded :
          /\ Done(t)
          /\ yielded' = yielded \cup {t}
          /\ cards' = IF fresult[t] = "card" THEN Append(cards, CardOfTask(t)) ELSE cards
          /\ pc' = IF fresult[t] = "raise" THEN "done" ELSE pc
          /\ processed' = IF fresult[t] = "raise" THEN processed ELSE processed + 1
          /\ progress' = IF fresult[t] = "raise" THEN progress
                         ELSE Append(progress, <<processed + 1, total>>)
    /\ UNCHANGED <<pdf_paths, stop_event, probe_i, tasks, total, fstate, fresult,
                   qhead, cancel_i, errors, terminal, inflight_at_cancel, gui, storeVars>>

\* LoopProcess with a `continue` in the except branch: an extraction that
\* raised is reported but neither counted nor followed by a progress signal.
LoopProcessSkipsRaised ==
    /\ pc = "loop"
    /\ ~stop_event
    /\ \E t \in TaskIds \ yielded :
          /\ Done(t)
          /\ yielded' = yielded \cup {t}
          /\ cards' = IF fresult[t] = "card" THEN Append(cards, CardOfTask(t)) ELSE cards
          /\ errors' = IF fresult[t] = "raise" THEN errors \cup {<<"extract", t>>} ELSE errors
          /\ processed' = IF fresult[t] = "raise" THEN processed ELSE processed + 1
          /\ progress' = IF fresult[t] = "raise" THEN progress
                         ELSE Append(progress, <<processed + 1, total>>)
    /\ UNCHANGED <<pdf_paths, stop_event, pc, probe_i, tasks, total, fstate, fresult,
                   qhead, cancel_i, terminal, inflight_at_cancel, gui, storeVars>>

\* run, lines 49-50 and 55-63: as_completed yields a future and the flag is clear.
LoopProcess ==
    /\ pc = "loop"
    /\ ~stop_event
    /\ \E t \in TaskIds \ yielded :
          /\ Done(t)
          /\ yielded' = yielded \cup {t}
          /\ cards' = IF fresult[t] = "card" THEN Append(cards, CardOfTask(t)) ELSE cards
          /\ errors' = IF fresult[t] = "raise" THEN errors \cup {<<"extract", t>>} ELSE errors
    /\ processed' = processed + 1
    /\ progress' = Append(progress, <<processed + 1, total>>)
    /\ UNCHANGED <<pdf_paths, stop_event, pc, probe_i, tasks, total, fstate, fresult,
                   qhead, cancel_i, terminal, inflight_at_cancel, gui, storeVars>>

\* run, lines 49-51: as_completed yields a future and the flag is set.
LoopSeesCancel ==
    /\ pc = "loop"
    /\ stop_event
    /\ \E t \in TaskIds \ yielded : Done(t)
    /\ pc' = "cancel"
    /\ cancel_i' = 1
    /\ UNCHANGED <<pdf_paths, stop_event, probe_i, tasks, total, processed, cards,
                   fstate, fresult, qhead, yielded, progress, errors, terminal,
                   inflight_at_cancel, gui, storeVars>>

\* run, lines 51-52: one fut.cancel(); only a PENDING future is cancelled.
CancelFuture ==
    /\ pc = "cancel"
    /\ cancel_i <= Len(tasks)
    /\ fstate' = IF fstate[cancel_i] = "PENDING"
                 THEN [fstate EXCEPT ![cancel_i] = "CANCELLED"]
                 ELSE fstate
    /\ cancel_i' = cancel_i + 1
    /\ UNCHANGED <<pdf_paths, stop_event, pc, probe_i, tasks, total, processed, cards,
                   fresult, qhead, yielded, progress, errors, terminal,
                   inflight_at_cancel, gui, storeVars>>

\* EmitCancelled without the return: the loop goes on.
EmitCancelledNoReturn ==
    /\ pc = "cancel"
    /\ cancel_i > Len(tasks)
    /\ terminal' = Append(terminal, [signal |-> "cancelled", cards |-> cards])
    /\ pc' = "loop"
    /\ UNCHANGED <<pdf_paths, stop_event, probe_i, tasks, total, processed, cards,
                   fstate, fresult, qhead, yielded, cancel_i, progress, errors,
                   inflight_at_cancel, gui, storeVars>>

\* EmitCancelled emitting cancelled with a fresh empty list.
EmitCancelledEmpty ==
    /\ pc = "cancel"
    /\ cancel_i > Len(tasks)
    /\ terminal' = Append(terminal, [signal |-> "cancelled", cards |-> <<>>])
    /\ pc' = "shutdown"
    /\ UNCHANGED <<pdf_paths, stop_event, probe_i, tasks, total, processed, cards,
                   fstate, fresult, qhead, yielded, cancel_i, progress, errors,
                   inflight_at_cancel, gui, storeVars>>

\* run, lines 53-54: cancelled.emit(cards); return.
EmitCancelled ==
    /\ pc = "cancel"
    /\ cancel_i > Len(tasks)
    /\ terminal' = Append(terminal, [signal |-> "cancelled", cards |-> cards])
    /\ pc' = "shutdown"
    /\ UNCHANGED <<pdf_paths, stop_event, probe_i, tasks, total, processed, cards,
                   fstate, fresult, qhead, yielded, cancel_i, progress, errors,
                   inflight_at_cancel, gui, storeVars>>

\* Leaving the with block: shutdown(wait=True) joins the pool threads.
ShutdownJoin ==
    /\ pc = "shutdown"
    /\ Running = {}
    /\ qhead > Len(tasks)
    /\ pc' = "done"
    /\ UNCHANGED <<pdf_paths, stop_event, probe_i, tasks, total, processed, cards,
                   fstate, fresult, qhead, yielded, cancel_i, progress, errors,
                   terminal, inflight_at_cancel, gui, storeVars>>

\* FinalEmit without the else branch: nothing is emitted when the flag is clear.
FinalEmitCancelledOnly ==
    /\ pc = "loop"
    /\ yielded = TaskIds
    /\ terminal' = IF stop_event
                   THEN Append(terminal, [signal |-> "cancelled", cards |-> cards])
                   ELSE terminal
    /\ pc' = "done"
    /\ UNCHANGED <<pdf_paths, stop_event, probe_i, tasks, total, processed, cards,
                   fstate, fresult, qhead, yielded, cancel_i, progress, errors,
                   inflight_at_cancel, gui, storeVars>>

\* run, lines 65-68: the loop is exhausted; the flag decides the signal.
FinalEmit ==
    /\ pc = "loop"
    /\ yielded = TaskIds
    /\ terminal' = Append(terminal,
                          [signal |-> IF stop_event THEN "cancelled" ELSE "finished",
                           cards  |-> cards])
    /\ pc' = "done"
    /\ UNCHANGED <<pdf_paths, stop_event, probe_i, tasks, total, processed, cards,
                   fstate, fresult, qhead, yielded, cancel_i, progress, errors,
                   inflight_at_cancel, gui, storeVars>>

(* ------------------- SearchWindow (main.py) handlers ------------------- *)

\* _on_scan_finished(folder_path, cards), then _cleanup_scan.
_on_scan_finished ==
    /\ gui = "scanning"
    /\ \E k \in 1 .. Len(terminal) : terminal[k].signal = "finished"
    /\ LET k == CHOOSE k \in 1 .. Len(terminal) : terminal[k].signal = "finished"
           normalized == NormalizeAll(terminal[k].cards, ALLOWED_FIELDS)
           saved == save_folder_cards(file, folder_path, normalized, now)
       IN  /\ file' = saved
           /\ view' = [read |-> "collect", pref |-> folder_path, of |-> saved.folders,
                       cards |-> _collect_cards(saved.folders, folder_path,
                                               ALLOWED_FIELDS)]
    /\ now' = now + 1
    /\ gui' = "finished"
    /\ UNCHANGED <<scanVars, wr, raised, store_call, pureVars, concVars>>

\* A cancel handler that persists the partial records as a finished scan does.
_on_scan_cancelled_SavesPartial ==
    /\ gui = "scanning"
    /\ \E k \in 1 .. Len(terminal) : terminal[k].signal = "cancelled"
    /\ LET k == CHOOSE k \in 1 .. Len(terminal) : terminal[k].signal = "cancelled"
           normalized == NormalizeAll(terminal[k].cards, ALLOWED_FIELDS)
       IN  file' = save_folder_cards(file, folder_path, normalized, now)
    /\ gui' = "cancelled"
    /\ UNCHANGED <<scanVars, now, wr, raised, callVars, concVars>>

\* _on_scan_cancelled(cards), then _cleanup_scan.
_on_scan_cancelled ==
    /\ gui = "scanning"
    /\ \E k \in 1 .. Len(terminal) : terminal[k].signal = "cancelled"
    /\ gui' = "cancelled"
    /\ UNCHANGED <<scanVars, storeVars>>

Next ==
    \/ request_cancel
    \/ ProbeOk(0 .. (MaxTasks - Len(tasks)))
    \/ ProbeFail
    \/ Submit
    \/ WorkerTake
    \/ ExtractDone({"card", "none", "raise"})
    \/ LoopProcess
    \/ LoopSeesCancel
    \/ CancelFuture
    \/ EmitCancelled
    \/ ShutdownJoin
    \/ FinalEmit
    \/ _on_scan_finished
    \/ _on_scan_cancelled

Spec == Init /\ [][Next]_vars

\* The same program scanning one PDF of PoolTasks pages whose pages hold no
\* extractable card: more tasks than pool threads.
PoolInit == Init /\ Len(pdf_paths) = 1

PoolNext ==
    \/ request_cancel
    \/ ProbeOk({PoolTasks})
    \/ ProbeFail
    \/ Submit
    \/ WorkerTake
    \/ ExtractDone({"none"})
    \/ LoopProcess
    \/ LoopSeesCancel
    \/ CancelFuture
    \/ EmitCancelled
    \/ ShutdownJoin
    \/ FinalEmit
    \/ _on_scan_finished
    \/ _on_scan_cancelled

PoolSpec == PoolInit /\ [][PoolNext]_vars

\* ScanWorker.run under the scheduling the program has: the thread executing
\* run keeps running, a pool thread with work takes it, and every extraction
\* that was started returns or raises.
RunStep ==
    \/ ProbeOk(0 .. (MaxTasks - Len(tasks)))
    \/ ProbeFail
    \/ Submit
    \/ LoopProcess
    \/ LoopSeesCancel
    \/ CancelFuture
    \/ EmitCancelled
    \/ ShutdownJoin
    \/ FinalEmit

\* One PDF is scanned; its page count and every outcome stay open.
FairInit == Init /\ Len(pdf_paths) = 1

FairSpec ==
    /\ FairInit
    /\ [][Next]_vars
    /\ WF_vars(RunStep)
    /\ WF_vars(WorkerTake)
    /\ WF_vars(ExtractDone({"card", "none", "raise"}))

(* ------------------- the record store (main.py) ------------------------ *)

\* Batch keys and record lists the host saves under StoreSpec.
FolderKeys == {"folderA", "folderB"}

CardLists ==
    LET c1 == pdf_page_to_card(1, 0)
        c2 == pdf_page_to_card(1, 1)
    IN  {<<>>, <<c1>>, <<c2>>, <<c1, c2>>, <<c2, c1>>}

\* Records that earlier versions of the program, or an edit by hand, left in
\* appData.json: an older scan of page 1 of PDF 1, a record with fields
\* outside the allow-list, a legacy {kind: {...}} record, a record without
\* "file_path" and one whose "file_path" is the empty string.
StaleCard == [pdf_page_to_card(1, 0) EXCEPT !.fields.scanned_text = <<0, 0>>]
WithExtra(fields) == fields @@ [name |-> 7, type |-> 8]
ExtraCard == [wrapper |-> NoWrapper, fields |-> WithExtra(pdf_page_to_card(1, 1).fields)]
WrappedCard == [wrapper |-> "Unit", fields |-> WithExtra(pdf_page_to_card(2, 0).fields)]
KeylessCard == [wrapper |-> NoWrapper, fields |-> [scanned_text |-> <<9, 9>>]]
EmptyKeyCard == [pdf_page_to_card(2, 1) EXCEPT !.fields.file_path = NoPath]

\* A document holding such records, in two folders.
LegacyFolders ==
    << FolderEntry("folderC", <<WrappedCard, KeylessCard, StaleCard>>, 0),
       FolderEntry("folderB", <<ExtraCard, EmptyKeyCard>>, 0) >>

\* A document two scans left: folderA, then folderB, whose PDF has the stem of
\* a PDF of folderA, so both batches can hold a record with one preview path.
SharedFolders ==
    << FolderEntry("folderA", <<pdf_page_to_card(1, 1)>>, 0),
       FolderEntry("folderB", <<StaleCard>>, 0) >>

\* The preferred_path values the host passes to _collect_cards.
PreferredKeys == FolderKeys \cup {"folderC", NoPreferred}

\* _on_scan_finished, lines 281-282, up to write_text opening appData.json:
\* the cards are normalized, the document is built from the loaded cache, and
\* open(path, "w") truncates the file.
SaveBegin ==
    /\ wr.op = "idle"
    /\ now <= MaxClock
    /\ \E path \in FolderKeys, cs \in CardLists :
          LET normalized == NormalizeAll(cs, ALLOWED_FIELDS)
          IN  /\ wr' = [op |-> "save",
                        data |-> save_folder_cards(file, path, normalized, now)]
              /\ store_call' = [op |-> "save", path |-> path, cs |-> normalized,
                                before |-> _load_cache(file), returned |-> FALSE]
    /\ file' = PartialFile
    /\ now' = now + 1
    /\ raised' = FALSE
    /\ view' = NoView
    /\ UNCHANGED <<scanVars, gui, pureVars, concVars>>

\* write_text writes the whole text and closes the file; the store call
\* returns.  _load_cached_cards goes on to line 357 with the migrated cache.
WriteEnd ==
    /\ wr.op # "idle"
    /\ file' = wr.data
    /\ wr' = NoWrite
    /\ store_call' = [store_call EXCEPT !.returned = TRUE]
    /\ view' = IF wr.op = "migrate"
               THEN [read |-> "startup", pref |-> NoPreferred, of |-> wr.data.folders,
                     cards |-> _collect_cards(wr.data.folders, NoPreferred, ALLOWED_FIELDS)]
               ELSE view
    /\ UNCHANGED <<scanVars, gui, now, raised, pureVars, concVars>>

\* write_text raises OSError part-way: the exception reaches the caller.
WriteFail ==
    /\ wr.op # "idle"
    /\ raised' = TRUE
    /\ wr' = NoWrite
    /\ UNCHANGED <<scanVars, gui, file, now, callVars, concVars>>

\* The process dies during write_text and is started again.
Crash ==
    /\ wr.op # "idle"
    /\ wr' = NoWrite
    /\ store_call' = NoCall
    /\ UNCHANGED <<scanVars, gui, file, now, raised, view, pureVars, concVars>>

\* clear_cache, lines 583-586: unlink succeeds, or there is no file.
ClearUnlink ==
    /\ wr.op = "idle"
    /\ file' = AbsentFile
    /\ raised' = FALSE
    /\ store_call' = [op |-> "clear", path |-> "", cs |-> <<>>,
                      before |-> _load_cache(file), returned |-> TRUE]
    /\ view' = NoView
    /\ UNCHANGED <<scanVars, gui, now, wr, pureVars, concVars>>

\* A fallback that writes the loaded cache back.
ClearFallbackRewrite ==
    /\ wr.op = "idle"
    /\ file.kind # "absent"
    /\ wr' = [op |-> "clear", data |-> DocFile(_load_cache(file))]
    /\ file' = PartialFile
    /\ raised' = FALSE
    /\ store_call' = [op |-> "clear", path |-> "", cs |-> <<>>,
                      before |-> _load_cache(file), returned |-> FALSE]
    /\ view' = NoView
    /\ UNCHANGED <<scanVars, gui, now, pureVars, concVars>>

\* clear_cache, lines 587-589: unlink raises; write_text of the empty store
\* opens (truncates) the file.
ClearFallbackBegin ==
    /\ wr.op = "idle"
    /\ file.kind # "absent"
    /\ wr' = [op |-> "clear", data |-> DocFile(<<>>)]
    /\ file' = PartialFile
    /\ raised' = FALSE
    /\ store_call' = [op |-> "clear", path |-> "", cs |-> <<>>,
                      before |-> _load_cache(file), returned |-> FALSE]
    /\ view' = NoView
    /\ UNCHANGED <<scanVars, gui, now, pureVars, concVars>>

\* A _load_cache without its except clause: a file that does not parse raises.
LoadAndCollectRaising ==
    /\ wr.op = "idle"
    /\ \E preferred_path \in PreferredKeys :
          view' = [read |-> "collect", pref |-> preferred_path, of |-> _load_cache(file),
                   cards |-> _collect_cards(_load_cache(file), preferred_path,
                                           ALLOWED_FIELDS)]
    /\ raised' = (file.kind = "partial")
    /\ UNCHANGED <<scanVars, gui, file, now, wr, store_call, pureVars, concVars>>

\* cache = _load_cache(); _collect_cards(cache, preferred_path, allowed=...),
\* as in lines 283-284.
LoadAndCollect ==
    /\ wr.op = "idle"
    /\ \E preferred_path \in PreferredKeys :
          view' = [read |-> "collect", pref |-> preferred_path, of |-> _load_cache(file),
                   cards |-> _collect_cards(_load_cache(file), preferred_path,
                                           ALLOWED_FIELDS)]
    /\ raised' = FALSE
    /\ UNCHANGED <<scanVars, gui, file, now, wr, store_call, pureVars, concVars>>

\* _load_cached_cards: the loaded cache is migrated; when that changed
\* nothing, line 357 collects at once, otherwise _save_cache comes first.
_load_cached_cards ==
    /\ wr.op = "idle"
    /\ LET cache == _load_cache(file)
           migrated == Migrated(cache, ALLOWED_FIELDS)
       IN  IF migrated # cache
           THEN /\ wr' = [op |-> "migrate", data |-> DocFile(migrated)]
                /\ file' = PartialFile
                /\ store_call' = [op |-> "migrate", path |-> "", cs |-> <<>>,
                                  before |-> cache, returned |-> FALSE]
                /\ view' = NoView
           ELSE /\ view' = [read |-> "startup", pref |-> NoPreferred, of |-> cache,
                            cards |-> _collect_cards(cache, NoPreferred, ALLOWED_FIELDS)]
                /\ UNCHANGED <<wr, file, store_call>>
    /\ raised' = FALSE
    /\ UNCHANGED <<scanVars, gui, now, pureVars, concVars>>

\* Nothing is running and no call has been made.
StoreIdle ==
    /\ pdf_paths = <<1>>
    /\ stop_event = FALSE
    /\ pc = "probe"
    /\ probe_i = 1
    /\ tasks = <<>>
    /\ total = 0
    /\ processed = 0
    /\ cards = <<>>
    /\ fstate = <<>>
    /\ fresult = <<>>
    /\ qhead = 1
    /\ yielded = {}
    /\ cancel_i = 1
    /\ progress = <<>>
    /\ errors = {}
    /\ terminal = <<>>
    /\ inflight_at_cancel = {}
    /\ gui = "idle"
    /\ now = 1
    /\ wr = NoWrite
    /\ raised = FALSE
    /\ store_call = NoCall
    /\ view = NoView
    /\ norm = NoNorm
    /\ saver = IdleSaver
    /\ clearer = IdleClearer

StoreInit ==
    /\ StoreIdle
    /\ file \in {AbsentFile, DocFile(<<OldEntry>>), DocFile(LegacyFolders),
                 DocFile(SharedFolders)}
    /\ query = NoQuery
    /\ filt = NoFilter
    /\ classified = NoClassified

StoreNext ==
    \/ SaveBegin
    \/ WriteEnd
    \/ WriteFail
    \/ Crash
    \/ ClearUnlink
    \/ ClearFallbackBegin
    \/ LoadAndCollect
    \/ _load_cached_cards

StoreSpec == StoreInit /\ [][StoreNext]_vars

(* ------------------- _normalize_card on its own ------------------------ *)

\* The dicts _normalize_card is applied to: every set of these fields, flat
\* or as the one value of a single-key dict.
FieldNames ==
    {"file_path", "pdf_path", "size_bytes", "scanned_text", "name", "type", "text"}

FieldValue(k) == IF k \in {"file_path", "scanned_text"} THEN <<1, 1>> ELSE 7

Wrappers == {NoWrapper, "Unit", "file_path"}

Records ==
    {[wrapper |-> w, fields |-> [k \in S |-> FieldValue(k)]] :
        w \in Wrappers, S \in SUBSET FieldNames}

\* _normalize_card(c, ALLOWED_FIELDS), and _normalize_card of what it returned.
Normalize ==
    /\ \E c \in Records :
          LET once == _normalize_card(c, ALLOWED_FIELDS)
          IN  norm' = [called |-> TRUE, card |-> c, once |-> once,
                       twice |-> _normalize_card(once, ALLOWED_FIELDS)]
    /\ UNCHANGED <<scanVars, gui, file, now, wr, raised, store_call, view, concVars,
                   query, filt, classified>>

NormInit == StoreInit /\ file = AbsentFile

NormNext == Normalize

NormSpec == NormInit /\ [][NormNext]_vars

(* ------- _on_scan_finished and _on_clear_clicked on two threads -------- *)

\* worker.finished is connected to a lambda (line 248) after
\* worker.moveToThread(thread) (line 246).  PyQt5 calls a slot that is not a
\* method of a QObject in the thread of the emitting object, so finished.emit
\* in ScanWorker.run calls _on_scan_finished on the scan thread, while the GUI
\* thread stays free to run _on_clear_clicked: the Clear button is enabled
\* during a scan.  No lock guards appData.json.

\* Lines 281-282 and 638-645: the cards are normalized, the cache is loaded
\* and the new document is built in memory.
OnFinishedLoad ==
    /\ gui = "scanning"
    /\ saver.pc = "idle"
    /\ \E k \in 1 .. Len(terminal) : terminal[k].signal = "finished"
    /\ LET k == CHOOSE k \in 1 .. Len(terminal) : terminal[k].signal = "finished"
           normalized == NormalizeAll(terminal[k].cards, ALLOWED_FIELDS)
       IN  saver' = [pc |-> "loaded",
                     doc |-> save_folder_cards(file, folder_path, normalized, now),
                     overlap |-> FALSE]
    /\ now' = now + 1
    /\ UNCHANGED <<scanVars, gui, file, wr, raised, callVars, clearer>>

\* _save_cache, line 579: write_text opens appData.json, which truncates it.
OnFinishedOpen ==
    /\ saver.pc = "loaded"
    /\ file' = PartialFile
    /\ saver' = [saver EXCEPT !.pc = "writing", !.overlap = (clearer.pc = "writing")]
    /\ clearer' = [clearer EXCEPT !.overlap = @ \/ (clearer.pc = "writing")]
    /\ UNCHANGED <<scanVars, gui, now, wr, raised, callVars>>

\* write_text writes the text and closes the file.  When clear_cache had the
\* file open too, the two texts may be mixed; when clear_cache unlinked the
\* file meanwhile, the text went to a file that has no name any more.
OnFinishedWritten ==
    /\ saver.pc = "writing"
    /\ file' \in IF saver.doc.kind = "absent" THEN {file}
                  ELSE IF saver.overlap THEN {saver.doc, PartialFile}
                  ELSE {saver.doc}
    /\ saver' = [saver EXCEPT !.pc = "saved"]
    /\ UNCHANGED <<scanVars, gui, now, wr, raised, callVars, clearer>>

\* Lines 283-289: the cache is loaded again and collected with the scanned
\* folder preferred.
OnFinishedCollect ==
    /\ saver.pc = "saved"
    /\ view' = [read |-> "collect", pref |-> folder_path, of |-> _load_cache(file),
                cards |-> _collect_cards(_load_cache(file), folder_path, ALLOWED_FIELDS)]
    /\ saver' = [saver EXCEPT !.pc = "done"]
    /\ gui' = "finished"
    /\ UNCHANGED <<scanVars, file, now, wr, raised, store_call, pureVars, clearer>>

\* _on_clear_clicked: clear_cache, line 584, finds the file.
ClearClickExists ==
    /\ clearer.pc = "idle"
    /\ file.kind # "absent"
    /\ clearer' = [clearer EXCEPT !.pc = "unlink", !.overlap = FALSE]
    /\ UNCHANGED <<scanVars, gui, file, now, wr, raised, callVars, saver>>

\* Line 586: unlink succeeds.  A write_text that has the file open goes on
\* writing to the unlinked file.
ClearClickUnlink ==
    /\ clearer.pc = "unlink"
    /\ file' = AbsentFile
    /\ clearer' = [IdleClearer EXCEPT !.returned = TRUE]
    /\ saver' = IF saver.pc = "writing" THEN [saver EXCEPT !.doc = AbsentFile] ELSE saver
    /\ UNCHANGED <<scanVars, gui, now, wr, raised, callVars>>

\* Lines 587-589: unlink raises, and write_text of the empty store opens the
\* file.
ClearClickUnlinkFails ==
    /\ clearer.pc = "unlink"
    /\ file' = PartialFile
    /\ clearer' = [clearer EXCEPT !.pc = "writing", !.overlap = (saver.pc = "writing")]
    /\ saver' = [saver EXCEPT !.overlap = @ \/ (saver.pc = "writing")]
    /\ UNCHANGED <<scanVars, gui, now, wr, raised, callVars>>

\* Line 589: write_text writes {"folders": {}} and closes the file.
ClearClickWritten ==
    /\ clearer.pc = "writing"
    /\ file' \in IF clearer.overlap THEN {DocFile(<<>>), PartialFile} ELSE {DocFile(<<>>)}
    /\ clearer' = [IdleClearer EXCEPT !.returned = TRUE]
    /\ UNCHANGED <<scanVars, gui, now, wr, raised, callVars, saver>>

\* One PDF is scanned while the user may click Clear.
ConcInit == Init /\ Len(pdf_paths) = 1

ConcNext ==
    \/ request_cancel
    \/ ProbeOk(0 .. (MaxTasks - Len(tasks)))
    \/ ProbeFail
    \/ Submit
    \/ WorkerTake
    \/ ExtractDone({"card", "none", "raise"})
    \/ LoopProcess
    \/ LoopSeesCancel
    \/ CancelFuture
    \/ EmitCancelled
    \/ ShutdownJoin
    \/ FinalEmit
    \/ _on_scan_cancelled
    \/ OnFinishedLoad
    \/ OnFinishedOpen
    \/ OnFinishedWritten
    \/ OnFinishedCollect
    \/ ClearClickExists
    \/ ClearClickUnlink
    \/ ClearClickUnlinkFails
    \/ ClearClickWritten

ConcSpec == ConcInit /\ [][ConcNext]_vars

(* ----------------------------- strings --------------------------------- *)

UpperCase == "ABCDEFGHIJKLMNOPQRSTUVWXYZ"
LowerCase == "abcdefghijklmnopqrstuvwxyz"
Digits == "0123456789"

CharAt(s, i) == SubSeq(s, i, i)

\* The first position of a character in a string that holds it.
IndexOf(c, s) ==
    CHOOSE i \in 1 .. Len(s) :
        /\ CharAt(s, i) = c
        /\ \A j \in 1 .. (i - 1) : CharAt(s, j) # c

\* ch in s, for one character.
HasChar(c, s) == \E i \in 1 .. Len(s) : CharAt(s, i) = c

\* str.lower and str.upper (ASCII letters).
RECURSIVE lower(_)
lower(s) ==
    IF s = "" THEN ""
    ELSE (IF HasChar(Head(s), UpperCase)
          THEN CharAt(LowerCase, IndexOf(Head(s), UpperCase))
          ELSE Head(s)) \o lower(Tail(s))

RECURSIVE upper(_)
upper(s) ==
    IF s = "" THEN ""
    ELSE (IF HasChar(Head(s), LowerCase)
          THEN CharAt(UpperCase, IndexOf(Head(s), LowerCase))
          ELSE Head(s)) \o upper(Tail(s))

\* str.isupper: some cased character, and no lower-case one.
isupper(s) ==
    /\ \E i \in 1 .. Len(s) : HasChar(CharAt(s, i), UpperCase)
    /\ \A i \in 1 .. Len(s) : ~HasChar(CharAt(s, i), LowerCase)

\* str.isspace, for one character.
isspace(c) == c \in {" ", "\t", "\n"}

\* str.strip
RECURSIVE lstrip(_)
lstrip(s) == IF s # "" /\ isspace(Head(s)) THEN lstrip(Tail(s)) ELSE s

RECURSIVE rstrip(_)
rstrip(s) ==
    IF s # "" /\ isspace(CharAt(s, Len(s))) THEN rstrip(SubSeq(s, 1, Len(s) - 1)) ELSE s

strip(s) == rstrip(lstrip(s))

\* needle in s
Contains(needle, s) ==
    \E i \in 0 .. (Len(s) - Len(needle)) : SubSeq(s, i + 1, i + Len(needle)) = needle

\* " ".join(parts)
RECURSIVE JoinSpace(_)
JoinSpace(parts) ==
    IF parts = <<>> THEN ""
    ELSE IF Len(parts) = 1 THEN parts[1]
    ELSE parts[1] \o " " \o JoinSpace(Tail(parts))

\* Path(p).name: what follows the last "/".
RECURSIVE PathName(_)
PathName(p) ==
    IF HasChar("/", p) THEN PathName(SubSeq(p, IndexOf("/", p) + 1, Len(p))) ELSE p

(* ------------------ the query engine (search_filters.py) --------------- *)

\* tokens.append("".join(buf).strip()) when buf holds something.
Flush(tokens, buf) == IF buf # "" THEN Append(tokens, strip(buf)) ELSE tokens

\* The while loop of _tokenize, lines 15-42, and lines 43-44.
RECURSIVE TokenizeFrom(_, _, _, _)
TokenizeFrom(rest, tokens, buf, in_quote) ==
    IF rest = ""
    THEN Flush(tokens, buf)
    ELSE LET ch == Head(rest)
         IN  IF ch = "\""
             THEN IF in_quote
                  THEN TokenizeFrom(Tail(rest), Append(tokens, strip(buf)), "", FALSE)
                  ELSE TokenizeFrom(Tail(rest), Flush(tokens, buf), "", TRUE)
             ELSE IF ch \in {"(", ")"}
             THEN IF in_quote
                  THEN TokenizeFrom(Tail(rest), tokens, buf \o ch, in_quote)
                  ELSE TokenizeFrom(Tail(rest), Append(Flush(tokens, buf), ch), "", in_quote)
             ELSE IF isspace(ch) /\ ~in_quote
             THEN TokenizeFrom(Tail(rest), Flush(tokens, buf), "", in_quote)
             ELSE TokenizeFrom(Tail(rest), tokens, buf \o ch, in_quote)

\* _tokenize(expr): the tokens, without the empty ones.
_tokenize(expr) == SelectSeq(TokenizeFrom(expr, <<>>, "", FALSE), LAMBDA t : t # "")

\* A table in which OR binds tighter than AND.
precOrFirst(tok) == IF tok = "AND" THEN 1 ELSE 2

\* prec = {"AND": 2, "OR": 1}
prec(tok) == IF tok = "AND" THEN 2 ELSE 1

Last(s) == s[Len(s)]
Front(s) == SubSeq(s, 1, Len(s) - 1)

\* Lines 55-56: operators of at least tok's precedence go to the output.
RECURSIVE PopOperators(_, _, _)
PopOperators(output, stack, tok) ==
    IF /\ stack # <<>>
       /\ Last(stack) \in {"AND", "OR"}
       /\ prec(Last(stack)) >= prec(tok)
    THEN PopOperators(Append(output, Last(stack)), Front(stack), tok)
    ELSE [output |-> output, stack |-> stack]

\* Lines 61-64: everything above the nearest "(" goes to the output, and that
\* "(" is dropped if there is one.
RECURSIVE PopToParen(_, _)
PopToParen(output, stack) ==
    IF stack # <<>> /\ Last(stack) # "("
    THEN PopToParen(Append(output, Last(stack)), Front(stack))
    ELSE [output |-> output,
          stack  |-> IF stack # <<>> THEN Front(stack) ELSE stack]

\* Lines 67-68: the rest of the stack goes to the output, top first.
RECURSIVE PopAll(_, _)
PopAll(output, stack) ==
    IF stack = <<>> THEN output ELSE PopAll(Append(output, Last(stack)), Front(stack))

\* The for loop of _to_postfix, lines 53-66.
RECURSIVE PostfixFrom(_, _, _)
PostfixFrom(tokens, output, stack) ==
    IF tokens = <<>>
    THEN PopAll(output, stack)
    ELSE LET tok == Head(tokens)
         IN  IF tok \in {"AND", "OR"}
             THEN LET p == PopOperators(output, stack, tok)
                  IN  PostfixFrom(Tail(tokens), p.output, Append(p.stack, tok))
             ELSE IF tok = "("
             THEN PostfixFrom(Tail(tokens), output, Append(stack, tok))
             ELSE IF tok = ")"
             THEN LET p == PopToParen(output, stack)
                  IN  PostfixFrom(Tail(tokens), p.output, p.stack)
             ELSE PostfixFrom(Tail(tokens), Append(output, tok), stack)

\* _to_postfix(tokens)
_to_postfix(tokens) == PostfixFrom(tokens, <<>>, <<>>)

\* A match that compares the token as typed.
_match_token_CaseSensitive(token, haystack) == Contains(token, haystack)

\* A match of the whole haystack.
_match_token_Exact(token, haystack) == lower(token) = haystack

\* _match_token(token, haystack): token.lower() in haystack
_match_token(token, haystack) == Contains(lower(token), haystack)

\* b = stack.pop() if stack else False; a = stack.pop() if stack else False
PopTwo(stack) ==
    [b    |-> IF stack # <<>> THEN Last(stack) ELSE FALSE,
     a    |-> IF Len(stack) >= 2 THEN stack[Len(stack) - 1] ELSE FALSE,
     rest |-> IF Len(stack) >= 2 THEN SubSeq(stack, 1, Len(stack) - 2) ELSE <<>>]

\* The for loop of _eval_postfix, lines 80-90.
RECURSIVE EvalFrom(_, _, _)
EvalFrom(postfix, haystack, stack) ==
    IF postfix = <<>>
    THEN stack
    ELSE LET tok == Head(postfix)
             p == PopTwo(stack)
         IN  IF tok = "AND"
             THEN EvalFrom(Tail(postfix), haystack, Append(p.rest, p.a /\ p.b))
             ELSE IF tok = "OR"
             THEN EvalFrom(Tail(postfix), haystack, Append(p.rest, p.a \/ p.b))
             ELSE EvalFrom(Tail(postfix), haystack,
                           Append(stack, _match_token(tok, haystack)))

\* _eval_postfix(postfix, haystack)
_eval_postfix(postfix, haystack) ==
    IF postfix = <<>>
    THEN TRUE
    ELSE LET stack == EvalFrom(postfix, haystack, <<>>)
         IN  IF stack # <<>> THEN Last(stack) ELSE FALSE

\* An evaluation in which the empty expression matches nothing.
evaluate_expression_EmptyIsFalse(expr, haystack) ==
    IF strip(expr) = ""
    THEN FALSE
    ELSE _eval_postfix(_to_postfix(_tokenize(strip(expr))), haystack)

\* evaluate_expression(expr, haystack).  Line 101 maps "AND" to "AND" and "OR"
\* to "OR"; nothing in _to_postfix raises.
evaluate_expression(expr, haystack) ==
    IF strip(expr) = ""
    THEN TRUE
    ELSE _eval_postfix(_to_postfix(_tokenize(strip(expr))), haystack)

\* _card_text(card): the text fields that are there, joined and lowered.
_card_text(card) ==
    LET text_bits ==
            (IF "scanned_text" \in DOMAIN card THEN <<card.scanned_text>> ELSE <<>>)
            \o (IF "file_path" \in DOMAIN card THEN <<PathName(card.file_path)>> ELSE <<>>)
            \o (IF "pdf_path" \in DOMAIN card THEN <<PathName(card.pdf_path)>> ELSE <<>>)
    IN  lower(JoinSpace(text_bits))

\* A filter that never looks at the exclude expression.
filter_cards_IncludeOnly(records, include_expr, exclude_expr) ==
    SelectSeq(records, LAMBDA card : evaluate_expression(strip(include_expr), _card_text(card)))

\* filter_cards(cards, include_expr, exclude_expr)
filter_cards(records, include_expr, exclude_expr) ==
    SelectSeq(records,
              LAMBDA card :
                  /\ evaluate_expression(strip(include_expr), _card_text(card))
                  /\ ~(/\ strip(exclude_expr) # ""
                       /\ evaluate_expression(strip(exclude_expr), _card_text(card))))

(* ------------------------- calls of the engine ------------------------- *)

\* What expressions are put together from.
Pieces == {"a", "b", " AND ", " OR ", "(", ")", "\""}

RECURSIVE ExprsOfLen(_)
ExprsOfLen(n) ==
    IF n = 0 THEN {""} ELSE {e \o p : e \in ExprsOfLen(n - 1), p \in Pieces}

Literals == {"a", "b", "c"}

OrAnd(x, y, z) == x \o " OR " \o y \o " AND " \o z
AndOr(x, y, z) == x \o " AND " \o y \o " OR " \o z
ParenOrAnd(x, y, z) == "(" \o x \o " OR " \o y \o ") AND " \o z

\* Literals with only whitespace between them.
Juxtapositions ==
    {<<x, y>> : x \in Literals, y \in Literals}
    \cup {<<"a", "b", "c">>, <<"alpha", "beta">>}

\* Expressions longer than MaxPieces pieces, or over other words.
NamedExprs ==
    {OrAnd(x, y, z) : x \in Literals, y \in Literals, z \in Literals}
    \cup {AndOr(x, y, z) : x \in Literals, y \in Literals, z \in Literals}
    \cup {ParenOrAnd(x, y, z) : x \in Literals, y \in Literals, z \in Literals}
    \cup {"\"alpha\" OR beta", " ", " \t ", "a OR b ) AND c", "\"AND\"", "\" a\""}
    \cup {JoinSpace(ws) : ws \in Juxtapositions}

Expressions == UNION {ExprsOfLen(n) : n \in 0 .. MaxPieces} \cup NamedExprs

\* Searchable texts, lowered as _card_text leaves them.
Haystacks ==
    {"x", "a", "b", "c", "ab", "ac", "bc", "abc", "a and b", "(a)", "and", "xa",
     "alpha", "beta", "the alpha and the beta"}

\* Records as the result list holds them.
QueryCards ==
    {[scanned_text |-> "A b", file_path |-> "/d/x1.png"],
     [scanned_text |-> "a", file_path |-> "/d/B.png"],
     [scanned_text |-> "xx", file_path |-> "/ab/x3.png"],
     [scanned_text |-> "B", file_path |-> "/d/x4.png"],
     [file_path |-> "/d/x5.png", pdf_path |-> "/p/ab.pdf"]}

QueryCardLists == UNION {[1 .. n -> QueryCards] : n \in 0 .. MaxRecords}

\* What the include and exclude boxes hold.
FilterExprs == {"", " ", "A AND B", "a", "b", "a OR b", "xx"}

\* evaluate_expression(expr, haystack) is called and returns.
Evaluate ==
    /\ query # NoQuery
    /\ ~query.called
    /\ query' = [query EXCEPT !.called = TRUE,
                              !.result = evaluate_expression(query.expr, query.haystack)]
    /\ UNCHANGED <<scanVars, gui, file, now, wr, raised, store_call, view, concVars,
                   norm, filt, classified>>

\* filter_cards(cards, include_expr, exclude_expr) is called and returns.
FilterCards ==
    /\ filt # NoFilter
    /\ ~filt.called
    /\ filt' = [filt EXCEPT !.called = TRUE,
                            !.filtered = filter_cards(filt.cards, filt.include, filt.exclude)]
    /\ UNCHANGED <<scanVars, gui, file, now, wr, raised, store_call, view, concVars,
                   norm, query, classified>>

QueryInit ==
    /\ StoreIdle
    /\ file = AbsentFile
    /\ classified = NoClassified
    /\ \/ /\ query \in [called : {FALSE}, expr : Expressions, haystack : Haystacks,
                        result : {FALSE}]
          /\ filt = NoFilter
       \/ /\ query = NoQuery
          /\ filt \in [called : {FALSE}, cards : QueryCardLists, include : FilterExprs,
                       exclude : FilterExprs, filtered : {<<>>}]

QueryNext ==
    \/ Evaluate
    \/ FilterCards

QuerySpec == QueryInit /\ [][QueryNext]_vars

(* ------------- the classifier (scripts/card_classifier.py) ------------- *)

\* One ASCII character each for U+2022 (bullet), U+2212 (minus sign) and
\* U+00A9 (copyright sign) of the source.
Bullet == "*"
MinusSign == "~"
CopyrightSign == "@"

\* x in s, for a list s.
InSeq(x, s) == \E k \in 1 .. Len(s) : s[k] = x

\* [f(x) for x in s]
MapSeq(s, f(_)) == [k \in 1 .. Len(s) |-> f(s[k])]

\* The lists of s, one after the other.
RECURSIVE Flatten(_)
Flatten(s) == IF s = <<>> THEN <<>> ELSE Head(s) \o Flatten(Tail(s))

\* The pieces of s between the occurrences of one character.
RECURSIVE SplitOn(_, _)
SplitOn(s, sep) ==
    IF HasChar(sep, s)
    THEN <<SubSeq(s, 1, IndexOf(sep, s) - 1)>>
             \o SplitOn(SubSeq(s, IndexOf(sep, s) + 1, Len(s)), sep)
    ELSE <<s>>

\* str.split(): the words between runs of white space.
RECURSIVE WordsFrom(_, _, _)
WordsFrom(rest, word, out) ==
    IF rest = ""
    THEN IF word # "" THEN Append(out, word) ELSE out
    ELSE IF isspace(Head(rest))
    THEN WordsFrom(Tail(rest), "", IF word # "" THEN Append(out, word) ELSE out)
    ELSE WordsFrom(Tail(rest), word \o Head(rest), out)

split(s) == WordsFrom(s, "", <<>>)

\* s.replace(old, new), for one character.
RECURSIVE replace(_, _, _)
replace(s, old, new) ==
    IF s = "" THEN ""
    ELSE (IF Head(s) = old THEN new ELSE Head(s)) \o replace(Tail(s), old, new)

\* The stripped lines that have something in them.
Stripped(pieces) == SelectSeq(MapSeq(pieces, strip), LAMBDA ln : ln # "")

\* _as_lines(text_val), for the string that pdf_page_to_card passes.
_as_lines(text_val) == Stripped(SplitOn(text_val, "\n"))

AllDigits(s) == s # "" /\ \A i \in 1 .. Len(s) : HasChar(CharAt(s, i), Digits)

\* re.match(r"^[+-]?\d+$", ln.replace(minus sign, "-"))
IsIntLine(ln) ==
    LET r == replace(ln, MinusSign, "-")
    IN  IF r # "" /\ Head(r) \in {"+", "-"} THEN AllDigits(Tail(r)) ELSE AllDigits(r)

\* The number that a string of digits writes.
RECURSIVE DigitsValue(_)
DigitsValue(s) ==
    IF s = "" THEN 0
    ELSE 10 * DigitsValue(SubSeq(s, 1, Len(s) - 1))
             + (IndexOf(CharAt(s, Len(s)), Digits) - 1)

\* int(m.group(0))
ParseInt(ln) ==
    LET r == replace(ln, MinusSign, "-")
    IN  IF Head(r) = "-" THEN 0 - DigitsValue(Tail(r))
        ELSE IF Head(r) = "+" THEN DigitsValue(Tail(r))
        ELSE DigitsValue(r)

\* str(n)
RECURSIVE NatToStr(_)
NatToStr(n) ==
    IF n < 10 THEN CharAt(Digits, n + 1)
    ELSE NatToStr(n \div 10) \o CharAt(Digits, (n % 10) + 1)

IntToStr(n) == IF n < 0 THEN "-" \o NatToStr(0 - n) ELSE NatToStr(n)

\* _is_meta(line)
_is_meta(line) ==
    \/ line = ""
    \/ HasChar(CopyrightSign, line)
    \/ Contains(".psd", lower(line))
    \/ Len(line) >= 2 /\ Head(line) \in {"v", "V"} /\ HasChar(CharAt(line, 2), Digits)
    \/ \E i \in 1 .. (Len(line) - 2) :
          /\ AllDigits(SubSeq(line, 1, i))
          /\ CharAt(line, i + 1) = "/"
          /\ HasChar(CharAt(line, i + 2), Digits)
    \/ line \in {"EN", "SYS", "HMW"}

\* _extract_ints(lines)
_extract_ints(lines) == MapSeq(SelectSeq(lines, IsIntLine), ParseInt)

\* _split_traits(line)
_split_traits(line) ==
    LET parts == Stripped(SplitOn(line, Bullet))
    IN  IF parts = <<>> /\ isupper(line) THEN split(line) ELSE parts

\* _pick_name_and_sub(lines)
_pick_name_and_sub(lines) ==
    LET filtered == SelectSeq(lines, LAMBDA ln : ~_is_meta(ln) /\ _extract_ints(<<ln>>) = <<>>)
    IN  IF filtered = <<>>
        THEN [name |-> "", sub |-> ""]
        ELSE [name |-> Last(filtered),
              sub  |-> IF Len(filtered) > 1 /\ isupper(filtered[Len(filtered) - 1])
                       THEN filtered[Len(filtered) - 1]
                       ELSE ""]

\* The first line has one of the four words in it, tested in this order.
_detect_type(top_text) ==
    IF Contains("event", lower(top_text)) THEN "Event"
    ELSE IF Contains("unit", lower(top_text)) THEN "Unit"
    ELSE IF Contains("upgrade", lower(top_text)) THEN "Upgrade"
    ELSE IF Contains("leader", lower(top_text)) THEN "Leader"
    ELSE "Card"

\* The Card that pdf_page_to_card builds from a page's text.
CardOfText(text) ==
    LET lines == Stripped(SplitOn(text, "\n"))
    IN  [file_path   |-> "/tmp/doc_p1.png",
         size_bytes  |-> 1,
         modified_ts |-> 1,
         type        |-> IF lines # <<>> THEN _detect_type(lines[1]) ELSE "Card",
         text        |-> text]

\* detect_type(card)
detect_type(card) ==
    LET lowered == MapSeq(_as_lines(card.text), lower)
        any(test(_)) == \E k \in 1 .. Len(lowered) : test(lowered[k])
    IN  IF any(LAMBDA ln : Contains("leader unit", ln)) \/ any(LAMBDA ln : ln = "leader")
        THEN "Leader"
        ELSE IF any(LAMBDA ln : Contains("upgrade", ln))
                \/ any(LAMBDA ln : Contains("fortification", ln))
        THEN "Upgrade"
        ELSE IF any(LAMBDA ln : Contains("event", ln)) THEN "Event"
        ELSE IF any(LAMBDA ln : ln = "base") THEN "Base"
        ELSE IF any(LAMBDA ln : Contains("unit", ln)) THEN "Unit"
        ELSE IF card.type # "" THEN card.type ELSE "Card"

\* A numeric slot: None is <<>>, the number n is <<n>>.
None == <<>>

\* A slot that reads 0 where the number is missing.
SlotOrZero(nums, k) == IF Len(nums) >= k THEN <<nums[k]>> ELSE <<0>>

Slot(nums, k) == IF Len(nums) >= k THEN <<nums[k]>> ELSE None

\* str(slot or "")
SlotStr(slot) == IF slot = None \/ slot[1] = 0 THEN "" ELSE IntToStr(slot[1])

\* The traits loop of the parsers: the pieces of every line that has a bullet
\* or is upper-case, without the words of the kind.
TraitsOf(lines, words) ==
    LET found == Flatten(MapSeq(SelectSeq(lines,
                                          LAMBDA ln : HasChar(Bullet, ln) \/ isupper(ln)),
                                _split_traits))
    IN  SelectSeq(found, LAMBDA t : t # "" /\ upper(t) \notin words)

\* " ".join(effect_lines).strip()
EffectText(effect_lines) == strip(JoinSpace(effect_lines))

\* _parse_unit(card, lines)
_parse_unit(card, lines) ==
    LET arenas == SelectSeq(lines, LAMBDA ln : upper(ln) \in {"GROUND", "SPACE"})
        nums == _extract_ints(lines)
        cost == Slot(nums, 1)
        health == Slot(nums, 2)
        power == Slot(nums, 3)
        traits == TraitsOf(lines, {"UNIT", "GROUND", "SPACE"})
        picked == _pick_name_and_sub(lines)
        effect_lines ==
            SelectSeq(lines,
                      LAMBDA ln :
                          /\ ln \notin {"GROUND", "SPACE", "UNIT"}
                          /\ ~_is_meta(ln)
                          /\ ~InSeq(ln, traits)
                          /\ ln \notin {picked.name, picked.sub}
                          /\ ln \notin {SlotStr(cost), SlotStr(health), SlotStr(power)})
    IN  [name        |-> picked.name,
         subname     |-> picked.sub,
         arena       |-> IF arenas # <<>> THEN arenas[1] ELSE "",
         traits      |-> traits,
         cost        |-> cost,
         health      |-> health,
         power       |-> power,
         effect_text |-> EffectText(effect_lines)]

\* _parse_upgrade(card, lines)
_parse_upgrade(card, lines) ==
    LET nums == _extract_ints(lines)
        traits == TraitsOf(lines, {"UPGRADE"})
        picked == _pick_name_and_sub(lines)
        effect_lines ==
            SelectSeq(lines,
                      LAMBDA ln :
                          /\ ~_is_meta(ln)
                          /\ ~InSeq(ln, traits)
                          /\ ln \notin {picked.name, picked.sub}
                          /\ upper(ln) # "UPGRADE"
                          /\ ~IsIntLine(ln))
    IN  [name        |-> picked.name,
         subname     |-> picked.sub,
         traits      |-> traits,
         cost        |-> Slot(nums, 1),
         effect_text |-> EffectText(effect_lines)]

\* _parse_event(card, lines)
_parse_event(card, lines) ==
    LET nums == _extract_ints(lines)
        traits == TraitsOf(lines, {"EVENT"})
        picked == _pick_name_and_sub(lines)
        effect_lines ==
            SelectSeq(lines,
                      LAMBDA ln :
                          /\ ~_is_meta(ln)
                          /\ ~InSeq(ln, traits)
                          /\ upper(ln) # "EVENT"
                          /\ ln # picked.name
                          /\ ~IsIntLine(ln))
    IN  [name        |-> picked.name,
         traits      |-> traits,
         cost        |-> Slot(nums, 1),
         effect_text |-> EffectText(effect_lines)]

\* _parse_base(card, lines)
_parse_base(card, lines) ==
    LET nums == _extract_ints(lines)
        traits == Flatten(MapSeq(SelectSeq(lines, LAMBDA ln : isupper(ln) /\ ln # "BASE"),
                                 split))
        picked == _pick_name_and_sub(lines)
        effect_lines ==
            SelectSeq(lines,
                      LAMBDA ln :
                          /\ ~_is_meta(ln)
                          /\ upper(ln) # "BASE"
                          /\ ~InSeq(ln, traits)
                          /\ ln # picked.name
                          /\ ~IsIntLine(ln))
    IN  [name        |-> picked.name,
         traits      |-> traits,
         health      |-> Slot(nums, 1),
         effect_text |-> EffectText(effect_lines)]

\* _parse_leader(card, lines)
_parse_leader(card, lines) ==
    LET nums == _extract_ints(lines)
        traits == TraitsOf(lines, {"LEADER", "LEADER UNIT"})
        picked == _pick_name_and_sub(lines)
        effect_lines ==
            SelectSeq(lines,
                      LAMBDA ln :
                          /\ ~_is_meta(ln)
                          /\ upper(ln) \notin {"LEADER", "LEADER UNIT"}
                          /\ ~InSeq(ln, traits)
                          /\ ln \notin {picked.name, picked.sub}
                          /\ ~IsIntLine(ln))
    IN  [name        |-> picked.name,
         subname     |-> picked.sub,
         traits      |-> traits,
         cost        |-> Slot(nums, 1),
         health      |-> Slot(nums, 2),
         power       |-> Slot(nums, 3),
         effect_text |-> EffectText(effect_lines)]

\* base = {...}; base.update(fields)
Updated(base, fields) ==
    [k \in DOMAIN base \cup DOMAIN fields |->
        IF k \in DOMAIN fields THEN fields[k] ELSE base[k]]

\* classify_card(card): the key of the dict it returns, and the value under it.
classify_card(card) ==
    LET lines == _as_lines(card.text)
        detected == detect_type(card)
        base == [file_path   |-> card.file_path,
                 size_bytes  |-> card.size_bytes,
                 modified_ts |-> card.modified_ts,
                 type        |-> detected]
    IN  IF detected = "Unit"
        THEN [key |-> "unit", record |-> Updated(base, _parse_unit(card, lines))]
        ELSE IF detected = "Upgrade"
        THEN [key |-> "upgrade", record |-> Updated(base, _parse_upgrade(card, lines))]
        ELSE IF detected = "Event"
        THEN [key |-> "event", record |-> Updated(base, _parse_event(card, lines))]
        ELSE IF detected = "Base"
        THEN [key |-> "base", record |-> Updated(base, _parse_base(card, lines))]
        ELSE IF detected = "Leader"
        THEN [key |-> "leader", record |-> Updated(base, _parse_leader(card, lines))]
        ELSE [key |-> "card", record |-> Updated(base, [text |-> lines])]

\* Lines that a page's text is made of.
PageLines ==
    {"LEADER", "Leader Luke", "UPGRADE", "An event", "BASE", "Base camp", "UNIT",
     "GROUND", "* FORCE * JEDI", "3", "0", "Some effect text", "HAN SOLO", " "}

\* "\n".join(lines)
RECURSIVE JoinLines(_)
JoinLines(lines) ==
    IF lines = <<>> THEN ""
    ELSE IF Len(lines) = 1 THEN lines[1]
    ELSE lines[1] \o "\n" \o JoinLines(Tail(lines))

\* The example of a unit's page.
ExampleLines == <<"UNIT", "* SOLDIER", "3", "4", "2", "Some effect text", "HAN SOLO">>

\* Pages of more lines than MaxLines.
LongPages ==
    {ExampleLines,
     <<"Leader Luke", "Some effect text", "HAN SOLO">>,
     <<"An event", "UPGRADE", "LEADER", "3">>,
     <<"BASE", "UNIT", "0", "3", "Some effect text">>,
     <<"UNIT", "3", "GROUND", "0", "HAN SOLO">>,
     <<"LEADER UNIT", "* FORCE * JEDI", "~1", "+3", "0", "v2 art.psd", "LUKE">>}

\* The texts of the pages.
PageTexts ==
    {JoinLines(lines) : lines \in UNION {[1 .. n -> PageLines] : n \in 0 .. MaxLines}}
    \cup {JoinLines(lines) : lines \in LongPages}

\* pdf_page_to_card builds the Card of a page and returns classify_card(card).
Classify ==
    /\ ~classified.called
    /\ LET card == CardOfText(classified.text)
           result == classify_card(card)
       IN  classified' = [classified EXCEPT !.called = TRUE,
                                            !.type = card.type,
                                            !.key = result.key,
                                            !.record = result.record]
    /\ UNCHANGED <<scanVars, gui, file, now, wr, raised, store_call, view, concVars,
                   norm, query, filt>>

ClassifyInit ==
    /\ StoreIdle
    /\ file = AbsentFile
    /\ query = NoQuery
    /\ filt = NoFilter
    /\ classified \in [called : {FALSE}, text : PageTexts, type : {""}, key : {""},
                       record : {[type |-> ""]}]

ClassifyNext == Classify

ClassifySpec == ClassifyInit /\ [][ClassifyNext]_vars

(* ============================== claims ================================= *)

Range(s) == {s[k] : k \in 1 .. Len(s)}

\* Tasks whose extraction returned a card dict.
CardTasks(ts) == {t \in ts : fresult[t] = "card"}

CardsOfTasks(ts) == {CardOfTask(t) : t \in ts}

Finished == {t \in DOMAIN fstate : fstate[t] = "FINISHED"}

\* C1: one call of ScanWorker.run emits at most one terminal signal in total,
\* finished or cancelled, never both and never one of them twice.
C1_AtMostOneTerminal == Len(terminal) <= 1

\* run has returned after emitting cancelled from inside the loop, with a
\* cancelled future and an extraction failure on the way.
C1_Witness ==
    /\ pc = "done"
    /\ Len(terminal) = 1
    /\ terminal[1].signal = "cancelled"
    /\ \E t \in TaskIds : fstate[t] = "CANCELLED"
    /\ \E t \in TaskIds : <<"extract", t>> \in errors

\* C2: when every started extraction returns or raises, run eventually emits a
\* terminal signal, whenever (if ever) request_cancel is called, also with an
\* empty task list.
C2_EventuallyTerminal == <>(Len(terminal) >= 1)

\* A terminal signal for an empty task list after a cancel request.
C2_Witness ==
    /\ Len(terminal) = 1
    /\ tasks = <<>>
    /\ stop_event
    /\ terminal[1].signal = "cancelled"

\* C3: the records of the items that were running in a pool thread when
\* request_cancel was called are in the list the cancelled signal carries.
C3_InflightRecordsKept ==
    pc = "done" =>
        \A k \in 1 .. Len(terminal) :
            terminal[k].signal = "cancelled" =>
                CardsOfTasks(CardTasks(inflight_at_cancel)) \subseteq Range(terminal[k].cards)

\* C4: once request_cancel has been called, no work item that had not started
\* extraction starts it.
C4_NoStartAfterCancel ==
    [][stop_event =>
         \A t \in DOMAIN fstate : fstate[t] = "PENDING" => fstate'[t] # "RUNNING"]_vars

\* C5: the cancelled signal carries exactly the records of the items reported
\* as processed, and no progress signal follows a terminal signal.
C5_CancelledCarriesProcessed ==
    /\ [](\A k \in 1 .. Len(terminal) :
            terminal[k].signal = "cancelled" =>
                /\ processed = Cardinality(yielded)
                /\ progress[Len(progress)] = <<processed, total>>
                /\ Range(terminal[k].cards) = CardsOfTasks(CardTasks(yielded))
                /\ Len(terminal[k].cards) = Cardinality(CardTasks(yielded)))
    /\ [][Len(terminal) >= 1 => progress' = progress]_vars

\* A scan cancelled after two items were processed, one of them giving a record,
\* while a third item ended with a record after the signal.
C5_Witness ==
    /\ pc = "done"
    /\ Len(terminal) = 1
    /\ terminal[1].signal = "cancelled"
    /\ processed = 2
    /\ Len(terminal[1].cards) = 1
    /\ \E t \in TaskIds \ yielded : fresult[t] = "card"

\* C6: processed_count is strictly increasing, total_count is the same in every
\* progress signal, and every item whose extraction ended has exactly one
\* progress signal (the first signal, (0, total), belongs to no item).
C6_OneProgressPerCompletedItem ==
    /\ \A j \in 1 .. Len(progress) - 1 :
          /\ progress[j][1] < progress[j + 1][1]
          /\ progress[j][2] = progress[j + 1][2]
    /\ pc = "done" => Len(progress) - 1 = Cardinality(Finished)

\* C7: a failing extraction or page-count probe gives an error signal and does
\* not abort the scan: with no cancel request every task is processed and the
\* scan ends finished with the records of all the extractions that succeeded.
C7_FailureIsolated ==
    (pc = "done" /\ ~stop_event) =>
        /\ Len(terminal) = 1
        /\ terminal[1].signal = "finished"
        /\ yielded = TaskIds
        /\ processed = Len(tasks)
        /\ Range(terminal[1].cards) = CardsOfTasks(CardTasks(TaskIds))
        /\ Len(terminal[1].cards) = Cardinality(CardTasks(TaskIds))
        /\ \A t \in TaskIds : fresult[t] = "raise" <=> <<"extract", t>> \in errors
        /\ \A k \in 1 .. Len(pdf_paths) :
              <<"probe", pdf_paths[k]>> \in errors =>
                  \A t \in TaskIds : tasks[t][1] # pdf_paths[k]

\* A scan with a failed probe and a failed extraction that ended finished with
\* the record of a later item.
C7_Witness ==
    /\ pc = "done"
    /\ ~stop_event
    /\ \E k \in 1 .. Len(pdf_paths) : <<"probe", pdf_paths[k]>> \in errors
    /\ \E t, u \in TaskIds :
          /\ t < u
          /\ fresult[t] = "raise"
          /\ fresult[u] = "card"
          /\ CardOfTask(u) \in Range(terminal[1].cards)

\* C8: at every moment at most max_workers (5) extractions are in progress.
C8_PoolBound == Cardinality(Running) <= max_workers

\* Five extractions in progress while a sixth task waits in the queue.
C8_Witness ==
    /\ Cardinality(Running) = max_workers
    /\ qhead <= Len(tasks)
    /\ fstate[qhead] = "PENDING"

\* (pdf_path, page_index) of a stored record, and the order on these keys.
KeyLeq(a, b) ==
    \/ a.fields.pdf_path < b.fields.pdf_path
    \/ /\ a.fields.pdf_path = b.fields.pdf_path
       /\ a.fields.page_index <= b.fields.page_index

SortedCards(cs) == \A i, j \in 1 .. Len(cs) : i < j => KeyLeq(cs[i], cs[j])

\* The entry stored under a folder key.
StoredEntries(path) ==
    {_load_cache(file)[k] : k \in {j \in 1 .. Len(_load_cache(file)) :
                                      _load_cache(file)[j].folder_path = path}}

\* C9: the record sequence persisted after a finished scan is sorted by
\* (pdf_path, page_index), whatever the order in which the workers ended.
C9_PersistedSorted ==
    gui = "finished" => \A e \in StoredEntries(folder_path) : SortedCards(e.cards)

\* C10: at every point of save_folder_cards or clear_cache, a crash or failed
\* write included, appData.json holds a complete document (the previous or the
\* new one), never a partly written one.
C10_NeverPartial == file.kind # "partial"

(* ------------------------ the merged view ------------------------------ *)

\* The file_keys of a list of records, as _collect_cards reads them.
FileKeys(cs) == {TopLevelFilePath(cs[i]) : i \in 1 .. Len(cs)} \ {NoPath}

\* The batches (positions in folders) holding a record with this file_key.
BatchesWith(folders, key) ==
    {k \in 1 .. Len(folders) : key \in FileKeys(folders[k].cards)}

\* The last record with this file_key in a batch.
LastWith(cs, key) ==
    cs[CHOOSE i \in 1 .. Len(cs) :
          /\ TopLevelFilePath(cs[i]) = key
          /\ \A j \in 1 .. Len(cs) : TopLevelFilePath(cs[j]) = key => j <= i]

Max(S) == CHOOSE m \in S : \A n \in S : n <= m

\* The batch whose entry the tie-break rule names for a file_key.
WinningBatch(folders, pref, key) ==
    LET with == BatchesWith(folders, key)
        preferred == {k \in with : folders[k].folder_path = pref}
    IN  IF pref # NoPreferred /\ preferred # {} THEN Max(preferred) ELSE Max(with)

\* A record has no field outside the allow-list.
OnlyAllowed(card) ==
    IF card.wrapper = NoWrapper
    THEN DOMAIN card.fields \subseteq ALLOWED_FIELDS
    ELSE card.wrapper \in ALLOWED_FIELDS

\* C12: whatever the store holds and whatever the preferred key (none
\* included), the list _collect_cards returns has no two records with the
\* same file_key.
C12_ViewKeysUnique ==
    view.read # "none" =>
        \A i, j \in 1 .. Len(view.cards) :
            i # j => TopLevelFilePath(view.cards[i]) # TopLevelFilePath(view.cards[j])

\* A view of two or more records was collected from a store in which one
\* file_key is in two batches.
C12_Witness ==
    /\ view.read = "collect"
    /\ Len(view.cards) >= 2
    /\ \E key \in FileKeys(StoredCards(view.of)) :
          Cardinality(BatchesWith(view.of, key)) >= 2

\* C13: for a file_key that is in more than one batch, the view holds the
\* entry of the preferred batch when a preferred key is given and that batch
\* has the file_key, and otherwise the entry of the last batch, in stored
\* order, that has it.
C13_PreferredThenLast ==
    view.read # "none" =>
        \A key \in FileKeys(StoredCards(view.of)) :
            Cardinality(BatchesWith(view.of, key)) >= 2 =>
                LET b == WinningBatch(view.of, view.pref, key)
                    entry == _normalize_card(LastWith(view.of[b].cards, key),
                                             ALLOWED_FIELDS)
                IN  \E i \in 1 .. Len(view.cards) :
                        /\ TopLevelFilePath(view.cards[i]) = key
                        /\ view.cards[i] = entry

\* The preferred batch won against a later batch holding a different entry
\* for the same file_key.
C13_Witness ==
    /\ view.read = "collect"
    /\ view.pref # NoPreferred
    /\ \E key \in FileKeys(StoredCards(view.of)) :
          LET b == WinningBatch(view.of, view.pref, key)
              last == Max(BatchesWith(view.of, key))
          IN  /\ view.of[b].folder_path = view.pref
              /\ b < last
              /\ _normalize_card(LastWith(view.of[b].cards, key), ALLOWED_FIELDS)
                    # _normalize_card(LastWith(view.of[last].cards, key), ALLOWED_FIELDS)

\* The file_keys held by the batches other than the one under path.
OtherKeys(folders, path) ==
    UNION {FileKeys(folders[k].cards) :
             k \in {n \in 1 .. Len(folders) : folders[n].folder_path # path}}

\* save_folder_cards(k, R) has returned and the store was then collected with
\* k preferred.
SavedThenCollected ==
    /\ store_call.op = "save"
    /\ store_call.returned
    /\ view.read = "collect"
    /\ view.pref = store_call.path
    /\ view.of = _load_cache(file)

\* C14: when no other batch holds a file_key of R, save_folder_cards(k, R)
\* followed by _collect_cards with k preferred returns every file_key of R,
\* and nothing else beside the records of the other batches.
C14_SaveThenFlatten ==
    (SavedThenCollected
        /\ FileKeys(store_call.cs) \cap OtherKeys(view.of, store_call.path) = {}) =>
        /\ FileKeys(store_call.cs) \subseteq FileKeys(view.cards)
        /\ FileKeys(view.cards) \ OtherKeys(view.of, store_call.path)
              = FileKeys(store_call.cs)
        /\ \A key \in FileKeys(store_call.cs) :
              \E i \in 1 .. Len(view.cards) :
                  view.cards[i] = LastWith(store_call.cs, key)

\* A record was saved over an older batch under the same key, next to
\* another batch with other file_keys, and then collected.
C14_Witness ==
    /\ SavedThenCollected
    /\ Len(store_call.cs) >= 1
    /\ FileKeys(store_call.cs) \cap OtherKeys(view.of, store_call.path) = {}
    /\ OtherKeys(view.of, store_call.path) # {}
    /\ \E k \in 1 .. Len(store_call.before) :
          /\ store_call.before[k].folder_path = store_call.path
          /\ store_call.before[k].cards # store_call.cs

\* C15: after save_folder_cards(k, R) returns, the store has exactly one
\* batch under k, its records are R in order, its card_count is len(R), and a
\* record of the batch k held before is still there only if it is in R.
C15_SaveReplacesBatch ==
    (store_call.op = "save" /\ store_call.returned) =>
        LET folders == _load_cache(file)
            under == {k \in 1 .. Len(folders) : folders[k].folder_path = store_call.path}
            was == {k \in 1 .. Len(store_call.before) :
                       store_call.before[k].folder_path = store_call.path}
        IN  /\ Cardinality(under) = 1
            /\ \A k \in under :
                  /\ folders[k].cards = store_call.cs
                  /\ folders[k].card_count = Len(store_call.cs)
                  /\ \A b \in was :
                        Range(store_call.before[b].cards) \cap Range(folders[k].cards)
                            \subseteq Range(store_call.cs)

\* A save returned whose batch key already held a record that is not in R.
C15_Witness ==
    /\ store_call.op = "save"
    /\ store_call.returned
    /\ \E b \in 1 .. Len(store_call.before) :
          /\ store_call.before[b].folder_path = store_call.path
          /\ ~(Range(store_call.before[b].cards) \subseteq Range(store_call.cs))

\* C16: once clear_cache has returned normally, loading the store gives no
\* batch, whether the file was unlinked or the fallback rewrote it.
C16_ClearedStoreLoadsEmpty ==
    (store_call.op = "clear" /\ store_call.returned) => _load_cache(file) = <<>>

\* clear_cache returned through its fallback, on a store that held batches.
C16_Witness ==
    /\ store_call.op = "clear"
    /\ store_call.returned
    /\ store_call.before # <<>>
    /\ file.kind = "doc"

\* C17: with appData.json missing or not parsable, loading gives the empty
\* store without raising, and collecting from it gives the empty list.
C17_UnreadableLoadsEmpty ==
    (view.read = "collect" /\ file.kind # "doc") =>
        /\ view.of = <<>>
        /\ view.cards = <<>>
        /\ ~raised

\* The store was collected while the file held a partly written document.
C17_Witness ==
    /\ view.read = "collect"
    /\ file.kind = "partial"

\* C18: a record saved on scan completion, and a record _collect_cards
\* returns, has no field outside ALLOWED_FIELDS.
C18_OnlyAllowedFields ==
    /\ view.read # "none" =>
          \A i \in 1 .. Len(view.cards) : OnlyAllowed(view.cards[i])
    /\ store_call.op = "save" =>
          \A i \in 1 .. Len(store_call.cs) : OnlyAllowed(store_call.cs[i])
    /\ gui = "finished" =>
          \A e \in StoredEntries(folder_path) :
              \A i \in 1 .. Len(e.cards) : OnlyAllowed(e.cards[i])

\* A stored record with fields outside the allow-list was collected.
C18_Witness ==
    /\ view.read = "collect"
    /\ \E i \in 1 .. Len(StoredCards(view.of)) :
          LET card == StoredCards(view.of)[i]
          IN  /\ ~OnlyAllowed(card)
              /\ \E j \in 1 .. Len(view.cards) :
                    TopLevelFilePath(view.cards[j]) = TopLevelFilePath(card)

\* The stored records in the legacy {kind: {...}} shape whose inner dict has
\* a file_path.
LegacyWrapped(folders) ==
    {c \in Range(StoredCards(folders)) :
        /\ c.wrapper # NoWrapper
        /\ c.wrapper \notin ALLOWED_FIELDS
        /\ "file_path" \in DOMAIN c.fields}

\* C20: a record stored in the legacy wrapper shape is in the list
\* _collect_cards returns (unwrapped and projected); it is not dropped.
C20_LegacyRecordKept ==
    view.read = "collect" =>
        \A c \in LegacyWrapped(view.of) :
            \E i \in 1 .. Len(view.cards) :
                TopLevelFilePath(view.cards[i]) = c.fields.file_path

\* C19: _normalize_card applied to its own result returns that result, for
\* flat, wrapped and empty dicts, with and without fields outside the
\* allow-list.
C19_ProjectionIdempotent == norm.called => norm.twice = norm.once

\* A legacy wrapper around fields in and outside the allow-list was
\* normalized twice.
C19_Witness ==
    /\ norm.called
    /\ norm.card.wrapper = "Unit"
    /\ "name" \in DOMAIN norm.card.fields
    /\ "file_path" \in DOMAIN norm.once.fields
    /\ norm.once # norm.card

\* C11: the load-modify-write of save_folder_cards never runs while a
\* clear_cache call (or another save_folder_cards call) is under way.
C11_SaveClearExclusive ==
    ~(saver.pc \in {"loaded", "writing"} /\ clearer.pc \in {"unlink", "writing"})

(* ------------------------- the query engine ---------------------------- *)

\* Nothing but white space.
IsBlank(s) == \A i \in 1 .. Len(s) : isspace(CharAt(s, i))

\* The include expression is true of the record's text, and the exclude
\* expression is empty or false of it.
Kept(card) ==
    /\ evaluate_expression(filt.include, _card_text(card))
    /\ ~(/\ ~IsBlank(filt.exclude)
         /\ evaluate_expression(filt.exclude, _card_text(card)))

\* C21: filter_cards keeps a record exactly when the include expression is
\* true of its searchable text and the exclude expression is empty or false of
\* it, and the kept records stay in their input order.
C21_FilterKeepsInOrder ==
    filt.called => filt.filtered = SelectSeq(filt.cards, Kept)

\* An exclude expression dropped a record that the include expression kept,
\* and another record came through.
C21_Witness ==
    /\ filt.called
    /\ ~IsBlank(filt.exclude)
    /\ Len(filt.filtered) >= 1
    /\ \E i \in 1 .. Len(filt.cards) :
          /\ evaluate_expression(filt.include, _card_text(filt.cards[i]))
          /\ evaluate_expression(filt.exclude, _card_text(filt.cards[i]))

\* C22: an empty or white-space-only expression is true of every text, and
\* filter_cards(records, "", "") returns all the records in order.
C22_EmptyMatchesAll ==
    /\ (query.called /\ IsBlank(query.expr)) => query.result
    /\ (filt.called /\ filt.include = "" /\ filt.exclude = "")
          => filt.filtered = filt.cards

\* filter_cards(records, "", "") returned two records or more.
C22_Witness ==
    /\ filt.called
    /\ filt.include = ""
    /\ filt.exclude = ""
    /\ Len(filt.cards) >= 2
    /\ filt.filtered = filt.cards

\* The word is in the text the expression was evaluated on.
InText(x) == Contains(x, query.haystack)

\* C23: AND binds tighter than OR, and parentheses override that.
C23_AndBindsTighter ==
    query.called =>
        \A x \in Literals, y \in Literals, z \in Literals :
            /\ query.expr = OrAnd(x, y, z)
                  => query.result = (InText(x) \/ (InText(y) /\ InText(z)))
            /\ query.expr = AndOr(x, y, z)
                  => query.result = ((InText(x) /\ InText(y)) \/ InText(z))
            /\ query.expr = ParenOrAnd(x, y, z)
                  => query.result = ((InText(x) \/ InText(y)) /\ InText(z))

\* "a OR b AND c" was true of a text that holds a alone.
C23_Witness ==
    /\ query.called
    /\ query.expr = OrAnd("a", "b", "c")
    /\ query.haystack = "a"
    /\ query.result

\* The tokens with every ")" that closes nothing deleted, and one ")" appended
\* for every "(" left open.
RECURSIVE BalanceFrom(_, _, _)
BalanceFrom(tokens, depth, out) ==
    IF tokens = <<>>
    THEN out \o [i \in 1 .. depth |-> ")"]
    ELSE LET tok == Head(tokens)
         IN  IF tok = "("
             THEN BalanceFrom(Tail(tokens), depth + 1, Append(out, tok))
             ELSE IF tok = ")"
             THEN IF depth = 0
                  THEN BalanceFrom(Tail(tokens), 0, out)
                  ELSE BalanceFrom(Tail(tokens), depth - 1, Append(out, tok))
             ELSE BalanceFrom(Tail(tokens), depth, Append(out, tok))

Balanced(tokens) == BalanceFrom(tokens, 0, <<>>)

\* No quoted phrase in the expression.
Unquoted(expr) == ~HasChar("\"", expr)

\* C24: an expression with an unmatched ")" or an unclosed "(" evaluates as
\* the same expression with the ")" deleted, or the missing ")" appended.
C24_UnbalancedAsBalanced ==
    (query.called /\ ~IsBlank(query.expr) /\ Unquoted(query.expr))
        => query.result =
               _eval_postfix(_to_postfix(Balanced(_tokenize(query.expr))),
                             query.haystack)

\* A literal that is in no text.
FalseOperand == "#false"

\* The tokens with FalseOperand written where an AND or an OR lacks an operand.
RECURSIVE FillFrom(_, _, _)
FillFrom(tokens, prev, out) ==
    IF tokens = <<>>
    THEN IF prev \in {"AND", "OR"} THEN Append(out, FalseOperand) ELSE out
    ELSE LET tok == Head(tokens)
         IN  IF tok \in {"AND", "OR"}
             THEN FillFrom(Tail(tokens), tok,
                           IF prev \in {"", "AND", "OR", "("}
                           THEN out \o <<FalseOperand, tok>>
                           ELSE Append(out, tok))
             ELSE IF tok = ")" /\ prev \in {"AND", "OR"}
             THEN FillFrom(Tail(tokens), tok, out \o <<FalseOperand, tok>>)
             ELSE FillFrom(Tail(tokens), tok, Append(out, tok))

Filled(tokens) == FillFrom(tokens, "", <<>>)

\* C25: an AND or an OR that lacks an operand is evaluated as if false stood
\* in the operand's place.
C25_MissingOperandIsFalse ==
    (/\ query.called
     /\ ~IsBlank(query.expr)
     /\ Unquoted(query.expr)
     /\ Balanced(_tokenize(query.expr)) = _tokenize(query.expr))
        => query.result =
               _eval_postfix(_to_postfix(Filled(_tokenize(query.expr))),
                             query.haystack)

\* The expression is one quoted phrase.
IsQuotedPhrase(expr) ==
    /\ Len(expr) >= 2
    /\ Head(expr) = "\""
    /\ CharAt(expr, Len(expr)) = "\""
    /\ Unquoted(SubSeq(expr, 2, Len(expr) - 1))

\* C26: a quoted phrase is one literal, white space, parentheses and the words
\* AND and OR inside it being text to match.
C26_QuotedPhraseIsLiteral ==
    (query.called /\ IsQuotedPhrase(query.expr))
        => query.result =
               Contains(lower(SubSeq(query.expr, 2, Len(query.expr) - 1)),
                        query.haystack)

\* Both letters are in the record's searchable text, in either case.
HasBoth(card) ==
    /\ Contains("a", _card_text(card))
    /\ Contains("b", _card_text(card))

\* C27: the include expression A AND B keeps exactly the records whose
\* searchable text holds both A and B, in either case.
C27_AndKeepsBoth ==
    (filt.called /\ filt.include = "A AND B" /\ IsBlank(filt.exclude))
        => filt.filtered = SelectSeq(filt.cards, HasBoth)

\* A AND B kept one record and dropped another.
C27_Witness ==
    /\ filt.called
    /\ filt.include = "A AND B"
    /\ IsBlank(filt.exclude)
    /\ Len(filt.filtered) >= 1
    /\ Len(filt.filtered) < Len(filt.cards)

\* C28: "alpha" OR beta is true of exactly the texts that hold alpha or beta.
C28_QuotedOr ==
    (query.called /\ query.expr = "\"alpha\" OR beta")
        => query.result = (InText("alpha") \/ InText("beta"))

\* "alpha" OR beta was true of a longer text that holds both words.
C28_Witness ==
    /\ query.called
    /\ query.expr = "\"alpha\" OR beta"
    /\ query.haystack = "the alpha and the beta"
    /\ query.result

(* --------------------------- the classifier ---------------------------- *)

\* Some line has the keyword of the kind.
HasKeyword(kind, lines) ==
    \E k \in 1 .. Len(lines) :
        LET ln == lower(lines[k])
        IN  CASE kind = "Leader"  -> Contains("leader unit", ln) \/ ln = "leader"
              [] kind = "Upgrade" -> Contains("upgrade", ln) \/ Contains("fortification", ln)
              [] kind = "Event"   -> Contains("event", ln)
              [] kind = "Base"    -> ln = "base"
              [] kind = "Unit"    -> Contains("unit", ln)

KindOrder == <<"Leader", "Upgrade", "Event", "Base", "Unit">>

\* The first kind of KindOrder whose keyword some line has, or Generic.
KindByKeyword(lines) ==
    IF \E i \in 1 .. Len(KindOrder) : HasKeyword(KindOrder[i], lines)
    THEN KindOrder[CHOOSE i \in 1 .. Len(KindOrder) :
                       /\ HasKeyword(KindOrder[i], lines)
                       /\ \A j \in 1 .. (i - 1) : ~HasKeyword(KindOrder[j], lines)]
    ELSE "Generic"

\* The key under which classify_card returns a record of the kind.
KeyOfKind(kind) == IF kind = "Generic" THEN "card" ELSE lower(kind)

\* C29: classify_card returns the record of the first kind, in the order
\* Leader, Upgrade, Event, Base, Unit, whose keyword some line has, and the
\* Generic record when no line has a keyword.
C29_KindByPriority ==
    classified.called
        => classified.key = KeyOfKind(KindByKeyword(_as_lines(classified.text)))

\* C30: the example lines classify to a Unit with cost 3, health 4, power 2,
\* the one trait SOLDIER, the name HAN SOLO and the effect text
\* "Some effect text".
C30_ExampleUnit ==
    (classified.called /\ _as_lines(classified.text) = ExampleLines)
        => /\ classified.key = "unit"
           /\ classified.record.type = "Unit"
           /\ classified.record.cost = <<3>>
           /\ classified.record.health = <<4>>
           /\ classified.record.power = <<2>>
           /\ classified.record.traits = <<"SOLDIER">>
           /\ classified.record.name = "HAN SOLO"
           /\ classified.record.effect_text = "Some effect text"

\* The values of the integer lines, in line order.
RECURSIVE IntValues(_)
IntValues(lines) ==
    IF lines = <<>> THEN <<>>
    ELSE (IF IsIntLine(Head(lines)) THEN <<ParseInt(Head(lines))>> ELSE <<>>)
             \o IntValues(Tail(lines))

\* The k-th integer line as a slot: null when there are fewer than k.
NthInt(lines, k) ==
    IF Len(IntValues(lines)) >= k THEN <<IntValues(lines)[k]>> ELSE <<>>

\* C31: the integer lines fill the numeric slots of the kind in line order
\* (Unit, Leader: cost, health, power; Upgrade, Event: cost; Base: health),
\* and a slot without an integer line is null.
C31_SlotsInLineOrder ==
    classified.called =>
        LET lines == _as_lines(classified.text)
            r == classified.record
        IN  /\ classified.key \in {"unit", "leader"}
                  => /\ r.cost = NthInt(lines, 1)
                     /\ r.health = NthInt(lines, 2)
                     /\ r.power = NthInt(lines, 3)
            /\ classified.key \in {"upgrade", "event"} => r.cost = NthInt(lines, 1)
            /\ classified.key = "base" => r.health = NthInt(lines, 1)

\* A unit's page had two integer lines: cost and health are set, the second
\* of them 0, and power is null.
C31_Witness ==
    /\ classified.called
    /\ classified.key = "unit"
    /\ classified.record.cost = <<3>>
    /\ classified.record.health = <<0>>
    /\ classified.record.power = <<>>

\* How many numeric slots the records under the key have.
SlotCount(key) == IF key \in {"unit", "leader"} THEN 3 ELSE 1

\* The line supplied the keyword of the record's kind.
IsKeywordLine(ln, kind) == kind \in Range(KindOrder) /\ HasKeyword(kind, <<ln>>)

\* The line supplied one of the record's traits.
IsTraitLine(ln, r) ==
    /\ HasChar(Bullet, ln) \/ isupper(ln)
    /\ \E k \in 1 .. Len(r.traits) :
          InSeq(r.traits[k], _split_traits(ln)) \/ InSeq(r.traits[k], split(ln))

\* The line at position i is one of the integer lines that filled a slot.
IsSlotLine(lines, i, key) ==
    /\ IsIntLine(lines[i])
    /\ Len(IntValues(SubSeq(lines, 1, i))) <= SlotCount(key)

\* The line is the name or the subname of the record.
IsNameLine(ln, r) ==
    \/ ln = r.name
    \/ "subname" \in DOMAIN r /\ ln = r.subname

\* The lines that no earlier step used, in line order.
UnusedLines(lines, r, key) ==
    LET unused == {i \in 1 .. Len(lines) :
                      /\ ~IsKeywordLine(lines[i], r.type)
                      /\ ~IsTraitLine(lines[i], r)
                      /\ ~IsSlotLine(lines, i, key)
                      /\ ~IsNameLine(lines[i], r)
                      /\ ~_is_meta(lines[i])}
        RECURSIVE From(_)
        From(i) ==
            IF i > Len(lines) THEN <<>>
            ELSE (IF i \in unused THEN <<lines[i]>> ELSE <<>>) \o From(i + 1)
    IN  From(1)

\* C32: effect_text is the lines that supplied neither the kind keyword, a
\* trait, a numeric slot, the name nor the subname and are not metadata,
\* joined by single spaces.
C32_EffectIsUnusedLines ==
    (classified.called /\ classified.key # "card")
        => classified.record.effect_text =
               JoinSpace(UnusedLines(_as_lines(classified.text), classified.record,
                                     classified.key))

(* ----------------------- the store, continued -------------------------- *)

\* Every record of the folders is flat and has allowed fields only.
AllProjected(folders) ==
    \A k \in 1 .. Len(folders) :
        \A c \in 1 .. Len(folders[k].cards) :
            /\ folders[k].cards[c].wrapper = NoWrapper
            /\ DOMAIN folders[k].cards[c].fields \subseteq ALLOWED_FIELDS

\* C33: when _load_cached_cards has returned, every persisted record is flat
\* and projected; the pass starts a write only when some record was not; and a
\* second pass on that store writes nothing and changes nothing.
C33_MigrationOnce ==
    /\ [](view.read = "startup" => AllProjected(_load_cache(file)))
    /\ [][(wr.op = "idle" /\ wr'.op = "migrate")
              => ~AllProjected(_load_cache(file))]_vars
    /\ [][view.read = "startup" => wr'.op # "migrate"]_vars
    /\ [][(view.read = "startup" /\ view'.read = "startup")
              => (file' = file /\ view' = view)]_vars

\* The pass found a legacy record, rewrote the store and returned.
C33_Witness ==
    /\ store_call.op = "migrate"
    /\ store_call.returned
    /\ view.read = "startup"
    /\ ~AllProjected(store_call.before)
    /\ file.kind = "doc"
    /\ Len(file.folders) = Len(store_call.before)

\* The scan has emitted cancelled.
EndedCancelled == \E k \in 1 .. Len(terminal) : terminal[k].signal = "cancelled"

\* C34: a scan that ends Cancelled leaves the persisted store as it was before
\* the scan: no partial record is saved and the stored batches are the same.
C34_CancelledLeavesStore ==
    EndedCancelled => file = DocFile(<<OldEntry>>)

\* A scan was cancelled with a record in hand, and its handler has run.
C34_Witness ==
    /\ gui = "cancelled"
    /\ \E k \in 1 .. Len(terminal) :
          /\ terminal[k].signal = "cancelled"
          /\ Len(terminal[k].cards) >= 1
    /\ file = DocFile(<<OldEntry>>)

\* Every batch the store held under another key before the save is in the
\* store, unchanged.
OthersKept ==
    \A b \in 1 .. Len(store_call.before) :
        store_call.before[b].folder_path # store_call.path
            => \E k \in 1 .. Len(_load_cache(file)) :
                  _load_cache(file)[k] = store_call.before[b]

\* C35: when save_folder_cards(k, R) has ended, by returning or by raising,
\* every batch stored under a key other than k is in the store as it was
\* before the call.
C35_SaveKeepsOtherBatches ==
    (store_call.op = "save" /\ (store_call.returned \/ raised)) => OthersKept

\* The batch the store held before the scan is in it.
OldBatchStored ==
    \E k \in 1 .. Len(_load_cache(file)) :
        _load_cache(file)[k].folder_path = OldEntry.folder_path

\* C36: the batch that was stored before clear_cache ran, and that no scan
\* saved again, is not in the store at any time after clear_cache returned.
C36_ClearedBatchStaysGone == clearer.returned => ~OldBatchStored

\* The view _on_scan_finished shows after the save of store_call.path: the
\* store collected with that folder preferred.
ViewAfterScan ==
    _collect_cards(_load_cache(file), store_call.path, ALLOWED_FIELDS)

\* The view the next start-up shows: the store migrated, then collected with
\* no folder preferred.
ViewAtStartup ==
    _collect_cards(Migrated(_load_cache(file), ALLOWED_FIELDS), NoPreferred,
                   ALLOWED_FIELDS)

\* C37: after a scan has saved its batch, the view collected with that batch
\* preferred has, for every file_key, the record that the view collected at
\* the next start-up from the same store has.  Stores holding a record in
\* the legacy wrapper shape are left out: the two views differ on those for
\* the reason of C20.
C37_ScanViewIsStartupView ==
    (/\ store_call.op = "save" /\ store_call.returned /\ wr.op = "idle"
     /\ LegacyWrapped(_load_cache(file)) = {})
        => Range(ViewAfterScan) = Range(ViewAtStartup)

\* The scan ended with the finished signal.
EndedFinished ==
    \E k \in 1 .. Len(terminal) : terminal[k].signal = "finished"

\* C38: every progress signal (processed, total) has 0 <= processed <= total;
\* the records accumulated, in the list of run and in a terminal signal, are
\* never more than the items processed; and once finished is emitted the
\* last progress signal is (total, total).
C38_ProgressWithinTotal ==
    /\ \A k \in 1 .. Len(progress) :
          /\ 0 <= progress[k][1]
          /\ progress[k][1] <= progress[k][2]
    /\ pc # "probe" => /\ progress # <<>>
                       /\ Len(cards) <= processed
                       /\ Len(cards) <= Last(progress)[1]
    /\ \A k \in 1 .. Len(terminal) : Len(terminal[k].cards) <= processed
    /\ EndedFinished => Last(progress) = <<total, total>>

\* A scan of two or more items finished, one of them without a record.
C38_Witness ==
    /\ EndedFinished
    /\ total >= 2
    /\ Len(cards) >= 1
    /\ Len(cards) < processed
    /\ Last(progress) = <<total, total>>

\* C39: an expression of literals with only whitespace between them is true
\* of exactly the texts that hold every one of the literals.
C39_JuxtaposedMeansAnd ==
    query.called =>
        \A ws \in Juxtapositions :
            query.expr = JoinSpace(ws)
                => query.result = (\A k \in 1 .. Len(ws) : InText(ws[k]))

====
